---- MODULE Spec2Model ----
(***************************************************************************)
(* BRHC document import: the two import variants                           *)
(*   dlbImportBRHCFinal.main      (variant "final", the strict import)     *)
(*   dlbDocxImport._run_import    (variant "docx",  the live import)       *)
(* and the pure run/text helpers they are built from.                      *)
(*                                                                         *)
(* Text is a sequence of one-character strings, so that strip, startswith, *)
(* find, slicing and the regular expressions are computed character by    *)
(* character as the Python code computes them.  None is NoneT for text     *)
(* values, "None" for enumerations and NoneInt for integers.               *)
(*                                                                         *)
(* A closure of the import is an operator from the import's state (its     *)
(* local variables and the tables of its open transaction) to the state    *)
(* after the call.  A state that is read more than once is a parameter of  *)
(* the operator that reads it.                                             *)
(***************************************************************************)
EXTENDS Integers, Sequences, FiniteSets, TLC

VARIABLES
    pc,        \* "read" while paragraphs are consumed, "done" after the run; "call"/"return" for a helper call
    variant,   \* "final" | "docx" | "split" (a call of _split_runs_on_marker)
    palette,   \* names of the paragraphs the document is drawn from
    doc,       \* the paragraphs consumed so far, by name (document order)
    m,         \* the import's local variables and its open transaction's tables
    store,     \* the durable database
    store0,    \* the durable database before the first run
    outcome,   \* "none" | "commit" | "rollback" : how the last finished run ended
    run,       \* 1 for the first import run, 2 for the re-import of the same document
    replay,    \* paragraphs the re-import has still to read
    first,     \* doc_blocks committed by the first run (kept for comparison)
    limit,     \* the number of paragraphs a document may have
    fn_arg,    \* argument of a helper call
    fn_res     \* result of a helper call

vars == <<pc, variant, palette, doc, m, store, store0, outcome, run, replay, first, limit, fn_arg, fn_res>>

-----------------------------------------------------------------------------
(* Bounds *)

MaxParas == 4        \* paragraphs per document
MaxRuns == 3
MaxCalls == 3
MaxLines == 3        \* lines of a table aggregate
MaxQuestions == 3    \* rows of d_questions handed to the validator
MaxBlocks == 3       \* rows of doc_blocks handed to the rebuild
MaxTextLen == 4      \* characters of an enumerated run sequence

-----------------------------------------------------------------------------
(* None *)

NoneT == <<"<None>">>
NoneInt == -1

-----------------------------------------------------------------------------
(* Python str / list primitives over character sequences *)

IsSpace(c) == c \in {" ", "\t", "\n"}

Digits == <<"0", "1", "2", "3", "4", "5", "6", "7", "8", "9">>

IsDigit(c) == \E i \in 1..10 : Digits[i] = c

DigitVal(c) == (CHOOSE i \in 1..10 : Digits[i] = c) - 1

Lowers == <<"a","b","c","d","e","f","g","h","i","j","k","l","m","n","o","p","q","r","s","t","u","v","w","x","y","z">>

Uppers == <<"A","B","C","D","E","F","G","H","I","J","K","L","M","N","O","P","Q","R","S","T","U","V","W","X","Y","Z">>

IsAlpha(c) == \E i \in 1..26 : Lowers[i] = c \/ Uppers[i] = c

\* str.upper()
Upper(t) ==
    [i \in 1..Len(t) |->
        IF \E k \in 1..26 : Lowers[k] = t[i]
        THEN Uppers[CHOOSE k \in 1..26 : Lowers[k] = t[i]]
        ELSE t[i]]

\* str.lower()
Lower(t) ==
    [i \in 1..Len(t) |->
        IF \E k \in 1..26 : Uppers[k] = t[i]
        THEN Lowers[CHOOSE k \in 1..26 : Uppers[k] = t[i]]
        ELSE t[i]]

\* t[a:] with a 0-based
From(t, a) == SubSeq(t, a + 1, Len(t))

\* t[:b] with b 0-based, exclusive; a slice past the end stops at the end
Upto(t, b) == SubSeq(t, 1, IF b > Len(t) THEN Len(t) ELSE b)

RECURSIVE LStrip(_)
LStrip(t) == IF t # <<>> /\ IsSpace(Head(t)) THEN LStrip(Tail(t)) ELSE t

RECURSIVE RStrip(_)
RStrip(t) == IF t # <<>> /\ IsSpace(t[Len(t)]) THEN RStrip(SubSeq(t, 1, Len(t) - 1)) ELSE t

Strip(t) == RStrip(LStrip(t))

StartsWith(t, p) == Len(t) >= Len(p) /\ SubSeq(t, 1, Len(p)) = p

\* a match of the literal p at the start of t under re.IGNORECASE
StartsWithCI(t, p) == Len(t) >= Len(p) /\ Lower(SubSeq(t, 1, Len(p))) = Lower(p)

\* the 0-based offsets at which p occurs in t
Occurs(t, p) == {i \in 0..(Len(t) - Len(p)) : SubSeq(t, i + 1, i + Len(p)) = p}

\* str.find: the 0-based offset of the first occurrence, or -1
Find(t, p) ==
    IF Occurs(t, p) = {} THEN -1
    ELSE CHOOSE i \in Occurs(t, p) : \A j \in Occurs(t, p) : i <= j

\* p in t
Contains(t, p) == Occurs(t, p) # {}

\* str.replace(p, "", 1)
RemoveFirst(t, p) ==
    IF Find(t, p) = -1 THEN t
    ELSE Upto(t, Find(t, p)) \o From(t, Find(t, p) + Len(p))

\* "".join(ts)
RECURSIVE Concat(_)
Concat(ts) == IF ts = <<>> THEN <<>> ELSE Head(ts) \o Concat(Tail(ts))

\* sep.join(ts)
RECURSIVE Join(_, _)
Join(sep, ts) ==
    IF ts = <<>> THEN <<>>
    ELSE IF Len(ts) = 1 THEN ts[1]
    ELSE ts[1] \o sep \o Join(sep, Tail(ts))

NL == <<"\n">>

\* "".join(run.text for run in runs)
RunTexts(runs) == Concat([i \in 1..Len(runs) |-> runs[i].text])

\* str.split(sep) for a one-character separator
RECURSIVE SplitOn(_, _)
SplitOn(t, sep) ==
    IF Find(t, <<sep>>) = -1 THEN <<t>>
    ELSE <<Upto(t, Find(t, <<sep>>))>> \o SplitOn(From(t, Find(t, <<sep>>) + 1), sep)

\* a structural marker: "[" name "]"
Marker(name) == <<"[">> \o name \o <<"]">>

-----------------------------------------------------------------------------
(* dlbDocxImport: SimpleRun and the run-splitting helpers *)

SimpleRun(text, bold, italic, is_blue) ==
    [text |-> text, bold |-> bold, italic |-> italic, is_blue |-> is_blue]

RECURSIVE split_loop(_, _, _, _, _, _)
split_loop(runs, idx, i, cursor, before, after) ==
    IF i > Len(runs) THEN [before |-> before, after |-> after]
    ELSE LET r == runs[i]
             text == r.text
             next_cursor == cursor + Len(text)
         IN IF text = <<>> THEN split_loop(runs, idx, i + 1, cursor, before, after)
            ELSE IF idx >= next_cursor
                 THEN split_loop(runs, idx, i + 1, next_cursor, Append(before, r), after)
            ELSE IF idx <= cursor
                 THEN split_loop(runs, idx, i + 1, next_cursor, before, Append(after, r))
            ELSE LET split_at == idx - cursor
                     before_text == Upto(text, split_at)
                     after_text == From(text, split_at)
                     b2 == IF before_text # <<>>
                           THEN Append(before, SimpleRun(before_text, r.bold, r.italic, r.is_blue))
                           ELSE before
                     a2 == IF after_text # <<>>
                           THEN Append(after, SimpleRun(after_text, r.bold, r.italic, r.is_blue))
                           ELSE after
                 IN split_loop(runs, idx, i + 1, next_cursor, b2, a2)

\* the cut placed after the marker instead of before it
split_runs_after_marker(runs, marker) ==
    LET total_text == RunTexts(runs)
        idx == Find(total_text, marker)
    IN IF idx = -1 \/ StartsWith(Strip(total_text), marker) THEN <<runs>>
       ELSE LET r == split_loop(runs, idx + Len(marker), 1, 0, <<>>, <<>>)
            IN IF r.after # <<>> THEN <<r.before, r.after>> ELSE <<r.before>>

split_runs_on_marker(runs, marker) ==
    LET total_text == RunTexts(runs)
        idx == Find(total_text, marker)
    IN IF idx = -1 \/ StartsWith(Strip(total_text), marker) THEN <<runs>>
       ELSE LET r == split_loop(runs, idx, 1, 0, <<>>, <<>>)
            IN IF r.after # <<>> THEN <<r.before, r.after>> ELSE <<r.before>>

\* _strip_marker_prefix_runs: the loop over the runs
RECURSIVE strip_loop(_, _, _, _, _, _)
strip_loop(runs, start, end, i, cursor, updated) ==
    IF i > Len(runs) THEN updated
    ELSE LET r == runs[i]
             text == r.text
             next_cursor == cursor + Len(text)
         IN IF text = <<>> THEN strip_loop(runs, start, end, i + 1, cursor, updated)
            ELSE IF next_cursor <= start \/ cursor >= end
                 THEN strip_loop(runs, start, end, i + 1, next_cursor, Append(updated, r))
            ELSE LET before_text == IF cursor < start THEN Upto(text, start - cursor) ELSE <<>>
                     after_text == IF next_cursor > end THEN From(text, end - cursor) ELSE <<>>
                     u1 == IF before_text # <<>>
                           THEN Append(updated, SimpleRun(before_text, r.bold, r.italic, r.is_blue))
                           ELSE updated
                     u2 == IF after_text # <<>>
                           THEN Append(u1, SimpleRun(after_text, r.bold, r.italic, r.is_blue))
                           ELSE u1
                 IN strip_loop(runs, start, end, i + 1, next_cursor, u2)

strip_marker_prefix_runs(runs, marker) ==
    LET total_text == RunTexts(runs)
        stripped == LStrip(total_text)
    IN IF ~StartsWith(stripped, marker) THEN runs
       ELSE LET offset == Len(total_text) - Len(stripped)
            IN strip_loop(runs, offset, offset + Len(marker), 1, 0, <<>>)

\* _split_runs_by_span: the loop over the runs
RECURSIVE span_loop(_, _, _, _, _, _, _)
span_loop(runs, start, end, i, cursor, left, right) ==
    IF i > Len(runs) THEN [left |-> left, right |-> right]
    ELSE LET r == runs[i]
             text == r.text
             run_start == cursor
             run_end == cursor + Len(text)
         IN IF text = <<>> THEN span_loop(runs, start, end, i + 1, cursor, left, right)
            ELSE IF run_end <= start
                 THEN span_loop(runs, start, end, i + 1, run_end, Append(left, r), right)
            ELSE IF run_start >= end
                 THEN span_loop(runs, start, end, i + 1, run_end, left, Append(right, r))
            ELSE LET before_len == IF start - run_start > 0 THEN start - run_start ELSE 0
                     after_len == IF run_end - end > 0 THEN run_end - end ELSE 0
                     l2 == IF before_len > 0
                           THEN Append(left, SimpleRun(Upto(text, before_len),
                                                       r.bold, r.italic, r.is_blue))
                           ELSE left
                     r2 == IF after_len > 0
                           THEN Append(right, SimpleRun(From(text, Len(text) - after_len),
                                                        r.bold, r.italic, r.is_blue))
                           ELSE right
                 IN span_loop(runs, start, end, i + 1, run_end, l2, r2)

split_runs_by_span(runs, start, end) == span_loop(runs, start, end, 1, 0, <<>>, <<>>)

-----------------------------------------------------------------------------
(* dlbDocxImport: the markup serializer *)

\* close_tags with the bold tag closed before the italic one
close_tags_bold_first(open, current_bold, current_italic) ==
    (IF open /\ current_bold THEN <<"<", "/", "s", "t", "r", "o", "n", "g", ">">> ELSE <<>>)
    \o (IF open /\ current_italic THEN <<"<", "/", "e", "m", ">">> ELSE <<>>)

\* close_tags: the text appended for the currently open style
close_tags(open, current_bold, current_italic) ==
    (IF open /\ current_italic THEN <<"<", "/", "e", "m", ">">> ELSE <<>>)
    \o (IF open /\ current_bold THEN <<"<", "/", "s", "t", "r", "o", "n", "g", ">">> ELSE <<>>)

\* open_tags without the italic tag
open_tags_bold_only(bold, italic) ==
    IF bold THEN <<"<", "s", "t", "r", "o", "n", "g", ">">> ELSE <<>>

\* open_tags: the text appended for a new style
open_tags(bold, italic) ==
    (IF bold THEN <<"<", "s", "t", "r", "o", "n", "g", ">">> ELSE <<>>)
    \o (IF italic THEN <<"<", "e", "m", ">">> ELSE <<>>)

\* the loop of _runs_to_markup; open is FALSE while current_bold and current_italic are None
RECURSIVE markup_loop(_, _, _, _, _, _, _)
markup_loop(runs, i, output, has_markup, open, current_bold, current_italic) ==
    IF i > Len(runs)
    THEN [text |-> output \o close_tags(open, current_bold, current_italic),
          has_markup |-> has_markup]
    ELSE LET r == runs[i]
         IN IF r.text = <<>>
            THEN markup_loop(runs, i + 1, output, has_markup, open, current_bold, current_italic)
            ELSE IF ~open
                 THEN markup_loop(runs, i + 1, output \o open_tags(r.bold, r.italic) \o r.text,
                                  has_markup \/ r.bold \/ r.italic, TRUE, r.bold, r.italic)
            ELSE IF r.bold # current_bold \/ r.italic # current_italic
                 THEN markup_loop(runs, i + 1,
                                  output \o close_tags(open, current_bold, current_italic)
                                         \o open_tags(r.bold, r.italic) \o r.text,
                                  has_markup \/ r.bold \/ r.italic, TRUE, r.bold, r.italic)
            ELSE markup_loop(runs, i + 1, output \o r.text, has_markup, open,
                             current_bold, current_italic)

\* the serializer entered as if a bold style were already open
runs_to_markup_bold_open(runs) == markup_loop(runs, 1, <<>>, FALSE, TRUE, TRUE, FALSE)

runs_to_markup(runs) == markup_loop(runs, 1, <<>>, FALSE, FALSE, FALSE, FALSE)

-----------------------------------------------------------------------------
(* dlbDocxImport: title references, picture tags, headings, JSON *)

IsWordChar(c) == IsAlpha(c) \/ IsDigit(c) \/ c = "_"

\* SCRIPTURE_REF_RE = \b[A-Za-z][A-Za-z\.]+\s+\d+[:\.]\d ; .search(t) finds a match.
\* i is the first letter, j the last of [A-Za-z.]+, k the last blank, l the last digit of \d+
looks_like_scripture(t) ==
    \E i \in 1..Len(t) :
        /\ IsAlpha(t[i])
        /\ i = 1 \/ ~IsWordChar(t[i - 1])
        /\ \E j \in (i + 1)..Len(t) :
              /\ \A x \in (i + 1)..j : IsAlpha(t[x]) \/ t[x] = "."
              /\ \E k \in (j + 1)..Len(t) :
                    /\ \A x \in (j + 1)..k : IsSpace(t[x])
                    /\ \E l \in (k + 1)..Len(t) :
                          /\ \A x \in (k + 1)..l : IsDigit(t[x])
                          /\ l + 2 <= Len(t)
                          /\ t[l + 1] \in {":", "."}
                          /\ IsDigit(t[l + 2])

\* DOT_LEADER_RE = \.{2,} ; .search(t): [start, end) of the first run of two or more dots
RECURSIVE DotsEnd(_, _)
DotsEnd(t, e) == IF e < Len(t) /\ t[e + 1] = "." THEN DotsEnd(t, e + 1) ELSE e

DOT_LEADER_RE_search(t) ==
    LET start == Find(t, <<".", ".">>)
    IN IF start = -1 THEN [found |-> FALSE]
       ELSE [found |-> TRUE, start |-> start, end |-> DotsEnd(t, start)]

\* _find_title_reference_span; found = FALSE is None
find_title_reference_span(text) ==
    LET idx == Find(text, <<"\t">>)
        tl == Strip(Upto(text, idx))
        tr == Strip(From(text, idx + 1))
        match == DOT_LEADER_RE_search(text)
    IN IF idx # -1 /\ tl # <<>> /\ tr # <<>> /\ looks_like_scripture(tr)
       THEN [found |-> TRUE, left |-> tl, right |-> tr, span_start |-> idx, span_end |-> idx + 1]
       ELSE IF match.found
                /\ Strip(Upto(text, match.start)) # <<>>
                /\ Strip(From(text, match.end)) # <<>>
                /\ looks_like_scripture(Strip(From(text, match.end)))
       THEN [found |-> TRUE, left |-> Strip(Upto(text, match.start)),
             right |-> Strip(From(text, match.end)),
             span_start |-> match.start, span_end |-> match.end]
       ELSE [found |-> FALSE]

\* PIC_TAG_RE = \[Pic:\s*([^\]]+?)\s*\], IGNORECASE: a match at 0-based offset i of t.
\* It needs "[pic:", then at least one character other than "]", then "]".
PicMatchAt(t, i) ==
    LET body == From(t, i + 5)
        close == Find(body, <<"]">>)
    IN IF StartsWithCI(From(t, i), <<"[", "P", "i", "c", ":">>) /\ close >= 1
       THEN [found |-> TRUE, start |-> i, end |-> i + 5 + close + 1, group1 |-> Upto(body, close)]
       ELSE [found |-> FALSE]

\* PIC_TAG_RE.finditer(t): the non-overlapping matches from offset i on, left to right
RECURSIVE PIC_TAG_RE_finditer(_, _)
PIC_TAG_RE_finditer(t, i) ==
    IF i >= Len(t) THEN <<>>
    ELSE IF PicMatchAt(t, i).found
         THEN <<PicMatchAt(t, i)>> \o PIC_TAG_RE_finditer(t, PicMatchAt(t, i).end)
    ELSE PIC_TAG_RE_finditer(t, i + 1)

\* PIC_TAG_RE.sub("", t)
RECURSIVE PIC_TAG_RE_sub(_, _)
PIC_TAG_RE_sub(t, i) ==
    IF i >= Len(t) THEN <<>>
    ELSE IF PicMatchAt(t, i).found THEN PIC_TAG_RE_sub(t, PicMatchAt(t, i).end)
    ELSE <<t[i + 1]>> \o PIC_TAG_RE_sub(t, i + 1)

\* _note_heading
note_heading(text) ==
    LET trimmed == SelectSeq(text, IsAlpha)
    IN trimmed # <<>> /\ Upper(trimmed) = trimmed

\* json.dumps of a str
JsonChar(c) ==
    CASE c = "\"" -> <<"\\", "\"">>
      [] c = "\\" -> <<"\\", "\\">>
      [] c = "\n" -> <<"\\", "n">>
      [] c = "\t" -> <<"\\", "t">>
      [] OTHER -> <<c>>

JsonString(t) == <<"\"">> \o Concat([i \in 1..Len(t) |-> JsonChar(t[i])]) \o <<"\"">>

\* json.dumps of a list of already serialized items
JsonList(items) == <<"[">> \o Join(<<",", " ">>, items) \o <<"]">>

\* json.dumps({"left": left, "right": right})
JsonLeftRight(left, right) ==
    <<"{">> \o JsonString(<<"l", "e", "f", "t">>) \o <<":", " ">> \o JsonString(left)
    \o <<",", " ">> \o JsonString(<<"r", "i", "g", "h", "t">>) \o <<":", " ">>
    \o JsonString(right) \o <<"}">>

-----------------------------------------------------------------------------
(* Markers and CHAPTER_RE (both variants) *)

Final_KNOWN_MARKERS ==
    {Marker(<<"I">>), Marker(<<"S">>), Marker(<<"C", "h">>), Marker(<<"N">>),
     Marker(<<"P">>), Marker(<<"R">>), Marker(<<"T">>)}

RECURSIVE LeadingDigits(_)
LeadingDigits(t) ==
    IF t # <<>> /\ IsDigit(Head(t)) THEN <<Head(t)>> \o LeadingDigits(Tail(t)) ELSE <<>>

\* int(digits)
RECURSIVE ToInt(_)
ToInt(ds) == IF ds = <<>> THEN 0 ELSE 10 * ToInt(SubSeq(ds, 1, Len(ds) - 1)) + DigitVal(ds[Len(ds)])

\* CHAPTER_RE = ^(?:\[Ch\]\s*)?Chapter\s+(\d+), IGNORECASE; .match(t).
\* The result is int(group(1)), or NoneInt when there is no match.
CHAPTER_RE_match(t) ==
    LET t1 == IF StartsWithCI(t, Marker(<<"C", "h">>)) THEN LStrip(From(t, 4)) ELSE t
        word == <<"c", "h", "a", "p", "t", "e", "r">>
    IN IF ~StartsWithCI(t1, word) THEN NoneInt
       ELSE LET t2 == From(t1, 7)
                t3 == LStrip(t2)
            IN IF Len(t3) = Len(t2) \/ LeadingDigits(t3) = <<>> THEN NoneInt
               ELSE ToInt(LeadingDigits(t3))

\* the boundary test of an open aggregate with [P] among the markers
AggregateBoundary_with_P(stripped) ==
    \/ \E c \in {<<"S">>, <<"C", "h">>, <<"N">>, <<"P">>, <<"R">>, <<"T">>} :
          StartsWith(stripped, Marker(c))
    \/ CHAPTER_RE_match(stripped) # NoneInt

\* the boundary test of an open aggregate (both variants)
AggregateBoundary(stripped) ==
    \/ \E c \in {<<"S">>, <<"C", "h">>, <<"N">>, <<"R">>, <<"T">>} : StartsWith(stripped, Marker(c))
    \/ CHAPTER_RE_match(stripped) # NoneInt

-----------------------------------------------------------------------------
(* dlbImportBRHCFinal: rendering *)

EscapeChar(c) ==
    CASE c = "&" -> <<"&", "a", "m", "p", ";">>
      [] c = "<" -> <<"&", "l", "t", ";">>
      [] c = ">" -> <<"&", "g", "t", ";">>
      [] c = "\"" -> <<"&", "q", "u", "o", "t", ";">>
      [] OTHER -> <<c>>

escape_html(text) == Concat([i \in 1..Len(text) |-> EscapeChar(text[i])])

Pre(lines) ==
    <<"<", "p", "r", "e", ">">> \o escape_html(Join(NL, lines)) \o <<"<", "/", "p", "r", "e", ">">>

RowCells(line) ==
    IF Contains(line, <<"|">>) THEN SplitOn(line, "|") ELSE SplitOn(line, "\t")

RenderRow(row) ==
    <<"<", "t", "r", ">">>
    \o Concat([i \in 1..Len(row) |->
                 <<"<", "t", "d", ">">> \o escape_html(row[i]) \o <<"<", "/", "t", "d", ">">>])
    \o <<"<", "/", "t", "r", ">">>

\* _render_table with a line without a delimiter taken as a row of one cell
render_table_one_cell_rows(lines) ==
    LET rows == [i \in 1..Len(lines) |-> RowCells(lines[i])]
        col_count == CHOOSE n \in {Len(rows[i]) : i \in 1..Len(rows)} :
                         \A i \in 1..Len(rows) : Len(rows[i]) <= n
    IN IF \E i \in 1..Len(rows) : Len(rows[i]) # col_count THEN Pre(lines)
       ELSE <<"<", "t", "a", "b", "l", "e", ">">>
            \o Concat([i \in 1..Len(rows) |-> RenderRow(rows[i])])
            \o <<"<", "/", "t", "a", "b", "l", "e", ">">>

render_table(lines) ==
    LET rows == [i \in 1..Len(lines) |-> RowCells(lines[i])]
        col_count == CHOOSE n \in {Len(rows[i]) : i \in 1..Len(rows)} :
                         \A i \in 1..Len(rows) : Len(rows[i]) <= n
    IN IF \E i \in 1..Len(lines) : ~Contains(lines[i], <<"|">>) /\ ~Contains(lines[i], <<"\t">>)
       THEN Pre(lines)
       ELSE IF \E i \in 1..Len(rows) : Len(rows[i]) # col_count THEN Pre(lines)
       ELSE <<"<", "t", "a", "b", "l", "e", ">">>
            \o Concat([i \in 1..Len(rows) |-> RenderRow(rows[i])])
            \o <<"<", "/", "t", "a", "b", "l", "e", ">">>

-----------------------------------------------------------------------------
(* The database: tables as sequences of rows in insertion order *)

BlockRow(block_id, section_title, chapter_title, block_order, block_type, raw_text, normalized_text, table_json, image_blob_id) ==
    [block_id |-> block_id, section_title |-> section_title,
     chapter_title |-> chapter_title, block_order |-> block_order,
     block_type |-> block_type, raw_text |-> raw_text,
     normalized_text |-> normalized_text, table_json |-> table_json,
     image_blob_id |-> image_blob_id]

\* the content tables of a database or of a run's open transaction
Tables(d) ==
    [doc_blocks |-> d.doc_blocks, d_questions |-> d.d_questions,
     questions |-> d.questions, brhc_sections |-> d.brhc_sections,
     brhc_chapters |-> d.brhc_chapters]

\* the durable database with its content tables replaced
WithTables(durable, t) ==
    [durable EXCEPT !.doc_blocks = t.doc_blocks, !.d_questions = t.d_questions,
                    !.questions = t.questions, !.brhc_sections = t.brhc_sections,
                    !.brhc_chapters = t.brhc_chapters]

\* conn.rollback(): every write of the open transaction is undone
rollback_keeps_writes(work, durable) == WithTables(durable, Tables(work))

rollback(work, durable) == durable

\* conn.commit(): the open transaction's tables become durable
commit(work, durable) == WithTables(durable, Tables(work))

insert_doc_block(s, block_id, section_title, chapter_title, block_order, block_type, raw_text, normalized_text, table_json) ==
    [s EXCEPT !.doc_blocks = Append(@, BlockRow(block_id, section_title, chapter_title,
                                                block_order, block_type, raw_text,
                                                normalized_text, table_json, NoneInt))]

insert_question(s, block_id, question_number, question_text, section_title, chapter_title) ==
    [s EXCEPT !.d_questions = Append(@, [block_id |-> block_id,
                                         question_number |-> question_number,
                                         question_text |-> question_text,
                                         section_title |-> section_title,
                                         chapter_title |-> chapter_title])]

insert_question_row(s, section_title, chapter_title, chapter_number, question_number, question_text) ==
    [s EXCEPT !.questions = Append(@, [section_title |-> section_title,
                                       chapter_title |-> chapter_title,
                                       chapter_number |-> chapter_number,
                                       content_type |-> "question",
                                       question_number |-> question_number,
                                       question_text |-> question_text,
                                       answer_text |-> NoneT])]

\* INSERT INTO brhc_sections and current_section_id = lastrowid (both callers
\* assign the new row's id to current_section_id)
insert_section(s, title, order_index) ==
    [s EXCEPT !.brhc_sections = Append(@, [section_id |-> Len(@) + 1,
                                           section_title |-> title,
                                           order_index |-> order_index]),
              !.current_section_id = Len(s.brhc_sections) + 1]

insert_chapter(s, section_id, title, order_index) ==
    [s EXCEPT !.brhc_chapters = Append(@, [section_id |-> section_id,
                                           chapter_title |-> title,
                                           order_index |-> order_index])]

-----------------------------------------------------------------------------
(* dlbImportBRHCFinal: block-identity reconciler *)

RECURSIVE RowsById(_, _)
\* doc_blocks WHERE block_id IN ids: block_id is the INTEGER PRIMARY KEY (the
\* rowid), SQLite looks the ids up in ascending order
RowsById(rows, ids) ==
    IF ids = {} THEN <<>>
    ELSE LET lo == CHOOSE i \in ids : \A j \in ids : i <= j
         IN SelectSeq(rows, LAMBDA r : r.block_id = lo) \o RowsById(rows, ids \ {lo})

KeyOf(b) == <<b.block_type, b.raw_text, b.section_title, b.chapter_title>>

\* dict.setdefault(key, []).append(block) over the rows, a dict in insertion order
RECURSIVE GroupByKey(_, _)
GroupByKey(rows, acc) ==
    IF rows = <<>> THEN acc
    ELSE IF \E i \in 1..Len(acc) : acc[i].key = KeyOf(Head(rows))
         THEN GroupByKey(Tail(rows),
                         [i \in 1..Len(acc) |->
                             IF acc[i].key = KeyOf(Head(rows))
                             THEN [acc[i] EXCEPT !.blocks = Append(@, Head(rows))]
                             ELSE acc[i]])
         ELSE GroupByKey(Tail(rows), Append(acc, [key |-> KeyOf(Head(rows)),
                                                  blocks |-> <<Head(rows)>>]))

load_image_blocks(db) ==
    GroupByKey(RowsById(db.doc_blocks, db.brhc_image_block_map), <<>>)

\* image_block_map.get(key)
MapGet(map, key) ==
    IF \E i \in 1..Len(map) : map[i].key = key
    THEN map[CHOOSE i \in 1..Len(map) : map[i].key = key].blocks
    ELSE <<>>

MapPut(map, key, blocks) ==
    [i \in 1..Len(map) |-> IF map[i].key = key THEN [map[i] EXCEPT !.blocks = blocks] ELSE map[i]]

MapValues(map) == Concat([i \in 1..Len(map) |-> map[i].blocks])

\* image_blocks_by_chapter: chapter title -> blocks, in the order of the blocks given
by_chapter(blocks) ==
    [c \in {blocks[i].chapter_title : i \in 1..Len(blocks)} |->
        SelectSeq(blocks, LAMBDA b : b.chapter_title = c)]

\* list.remove(x): the first equal element is removed
ListRemove(list, x) ==
    IF \E i \in 1..Len(list) : list[i] = x
    THEN LET k == CHOOSE i \in 1..Len(list) : list[i] = x /\ \A j \in 1..(i - 1) : list[j] # x
         IN SubSeq(list, 1, k - 1) \o SubSeq(list, k + 1, Len(list))
    ELSE list

MaxOf(S) == CHOOSE x \in S : \A y \in S : y <= x

MinOf(S) == CHOOSE x \in S : \A y \in S : x <= y

next_block_id(db) ==
    IF db.doc_blocks = <<>> THEN 1
    ELSE MaxOf({db.doc_blocks[i].block_id : i \in 1..Len(db.doc_blocks)}) + 1

Abs(x) == IF x < 0 THEN -x ELSE x

\* min(pool, key = |b.block_order - v|): the first element with the least key
MinByOrder(pool, v) ==
    pool[CHOOSE i \in 1..Len(pool) :
            /\ \A j \in 1..Len(pool) : Abs(pool[i].block_order - v) <= Abs(pool[j].block_order - v)
            /\ \A j \in 1..(i - 1) : Abs(pool[j].block_order - v) > Abs(pool[i].block_order - v)]

\* lines 306-314, rule 1: the candidates of the exact key are popped until an
\* unused one, which becomes the result; block_id stays NoneInt when the list runs out
RECURSIVE ExactMatch(_, _, _)
ExactMatch(s, key, candidates) ==
    IF candidates = <<>> THEN [s EXCEPT !.image_block_map = MapPut(@, key, <<>>)]
    ELSE IF Head(candidates).block_id \in s.used_block_ids
         THEN ExactMatch(s, key, Tail(candidates))
    ELSE [s EXCEPT !.image_block_map = MapPut(@, key, Tail(candidates)),
                   !.used_block_ids = @ \cup {Head(candidates).block_id},
                   !.image_blocks_by_chapter =
                       [c \in DOMAIN @ |->
                           IF c = Head(candidates).chapter_title
                           THEN ListRemove(@[c], Head(candidates)) ELSE @[c]],
                   !.block_id = Head(candidates).block_id]

\* rule 2 without the preference for blocks of the requested type
NearestInChapter_any_type(s, block_type, block_order_value) ==
    LET blocks == IF s.current_chapter_title \in DOMAIN s.image_blocks_by_chapter
                  THEN SelectSeq(s.image_blocks_by_chapter[s.current_chapter_title],
                                 LAMBDA b : b.block_id \notin s.used_block_ids)
                  ELSE <<>>
        pick == MinByOrder(blocks, block_order_value)
    IN IF s.block_id # NoneInt \/ blocks = <<>> THEN s
       ELSE [s EXCEPT !.image_blocks_by_chapter[s.current_chapter_title] = ListRemove(@, pick),
                      !.used_block_ids = @ \cup {pick.block_id},
                      !.anomalies = Append(@, [kind |-> "reassigned", block_id |-> pick.block_id,
                                               block_type |-> block_type,
                                               order |-> block_order_value]),
                      !.block_id = pick.block_id]

\* lines 315-331, rule 2: the nearest unused image block of the current chapter
NearestInChapter(s, block_type, block_order_value) ==
    LET blocks == IF s.current_chapter_title \in DOMAIN s.image_blocks_by_chapter
                  THEN SelectSeq(s.image_blocks_by_chapter[s.current_chapter_title],
                                 LAMBDA b : b.block_id \notin s.used_block_ids)
                  ELSE <<>>
        same_type == SelectSeq(blocks, LAMBDA b : b.block_type = block_type)
        pool == IF same_type # <<>> THEN same_type ELSE blocks
        pick == MinByOrder(pool, block_order_value)
    IN IF s.block_id # NoneInt \/ blocks = <<>> THEN s
       ELSE [s EXCEPT !.image_blocks_by_chapter[s.current_chapter_title] = ListRemove(@, pick),
                      !.used_block_ids = @ \cup {pick.block_id},
                      !.anomalies = Append(@, [kind |-> "reassigned", block_id |-> pick.block_id,
                                               block_type |-> block_type,
                                               order |-> block_order_value]),
                      !.block_id = pick.block_id]

\* rule 3 without next_block_id += 1
FreshId_no_increment(s) ==
    IF s.block_id # NoneInt THEN s ELSE [s EXCEPT !.block_id = s.next_block_id]

\* lines 332-334, rule 3: a fresh id
FreshId(s) ==
    IF s.block_id # NoneInt THEN s
    ELSE [s EXCEPT !.block_id = s.next_block_id, !.next_block_id = @ + 1]

\* allocate_block_id: the returned id is the field block_id of the result
Final_allocate_block_id(s, block_type, raw_text, block_order_value) ==
    FreshId(NearestInChapter(
                ExactMatch([s EXCEPT !.block_id = NoneInt],
                           <<block_type, raw_text, s.current_section_title,
                             s.current_chapter_title>>,
                           MapGet(s.image_block_map,
                                  <<block_type, raw_text, s.current_section_title,
                                    s.current_chapter_title>>)),
                block_type, block_order_value))

-----------------------------------------------------------------------------
(* The document: python-docx paragraphs and runs *)

\* a run: bold/italic are tri-state ("True" | "False" | "None"), color_blue says
\* font.color.rgb = RGBColor(0, 0, 255), style_bold/style_italic say that the
\* run's character style declares the attribute
DocxRun(text, bold, italic, color_blue) ==
    [text |-> text, bold |-> bold, italic |-> italic, color_blue |-> color_blue,
     style_bold |-> FALSE, style_italic |-> FALSE]

\* a paragraph: para.text, para.runs and the paragraph style's font
DocxPara(runs) ==
    [text |-> RunTexts(runs), runs |-> runs, style_bold |-> FALSE, style_italic |-> FALSE]

Final_is_blue(r) == r.color_blue

-----------------------------------------------------------------------------
(* dlbImportBRHCFinal.main: state after BEGIN, load, delete (lines 253-297) *)

\* the locals of main, with the tables of the open transaction (deleted at line 262)
Final_locals(db, image_block_map) ==
    [doc_blocks |-> <<>>, d_questions |-> <<>>, questions |-> <<>>,
     brhc_sections |-> <<>>, brhc_chapters |-> <<>>,
     image_block_map |-> image_block_map,
     image_blocks_by_chapter |-> by_chapter(MapValues(image_block_map)),
     image_block_ids |-> {b.block_id : b \in {MapValues(image_block_map)[i] :
                                                  i \in 1..Len(MapValues(image_block_map))}},
     next_block_id |-> next_block_id(db), block_id |-> NoneInt,
     section_order |-> 0, chapter_order |-> 0,
     current_section_title |-> NoneT, current_section_id |-> NoneInt,
     current_chapter_title |-> NoneT, current_chapter_num |-> NoneInt,
     block_order |-> 0, question_counter |-> 0,
     sections_total |-> 0, chapters_processed |-> 0, questions_total |-> 0,
     notes_total |-> 0, poetry_total |-> 0, responsive_total |-> 0, tables_total |-> 0,
     anomalies |-> <<>>, used_block_ids |-> {},
     intro_active |-> TRUE, aggregated_type |-> "None", aggregated_lines |-> <<>>,
     current_mode |-> "None", current_buffer |-> <<>>, current_has_text |-> FALSE,
     raised |-> "None"]

Final_begin(db) == Final_locals(db, load_image_blocks(db))

\* _insert_doc_block(cur, block_id, current_section_title, current_chapter_title,
\*                   block_order, ...)
Final_insert(s, block_type, raw_text, normalized_text) ==
    insert_doc_block(s, s.block_id, s.current_section_title, s.current_chapter_title,
                     s.block_order, block_type, raw_text, normalized_text, NoneT)

\* block_order += 1; block_id = allocate_block_id(allocate_type, raw_text, block_order);
\* _insert_doc_block(..., block_type, raw_text, normalized_text)
Final_block(s, allocate_type, block_type, raw_text, normalized_text) ==
    Final_insert(Final_allocate_block_id([s EXCEPT !.block_order = @ + 1], allocate_type,
                                         raw_text, s.block_order + 1),
                 block_type, raw_text, normalized_text)

\* lines 359-366
Final_aggregate_done(s) ==
    [s EXCEPT !.poetry_total = IF s.aggregated_type = "poetry" THEN @ + 1 ELSE @,
              !.responsive_total = IF s.aggregated_type = "responsive" THEN @ + 1 ELSE @,
              !.tables_total = IF s.aggregated_type = "table" THEN @ + 1 ELSE @,
              !.aggregated_type = "None", !.aggregated_lines = <<>>]

Final_flush_aggregate(s) ==
    IF s.aggregated_type = "None" \/ s.aggregated_lines = <<>>
    THEN [s EXCEPT !.aggregated_type = "None", !.aggregated_lines = <<>>]
    ELSE Final_aggregate_done(
             Final_block(s, s.aggregated_type, s.aggregated_type,
                         Join(NL, s.aggregated_lines),
                         IF s.aggregated_type = "table" THEN render_table(s.aggregated_lines)
                         ELSE Join(NL, s.aggregated_lines)))

\* the question is numbered and recorded in d_questions only
Final_question_one_table(s, text) ==
    insert_question([s EXCEPT !.question_counter = @ + 1, !.questions_total = @ + 1],
                    s.block_id, s.question_counter + 1, text,
                    s.current_section_title, s.current_chapter_title)

\* lines 389-407: the question is numbered and recorded
Final_question(s, text) ==
    insert_question_row(
        insert_question([s EXCEPT !.question_counter = @ + 1, !.questions_total = @ + 1],
                        s.block_id, s.question_counter + 1, text,
                        s.current_section_title, s.current_chapter_title),
        s.current_section_title, s.current_chapter_title, s.current_chapter_num,
        s.question_counter + 1, text)

\* lines 389-413
Final_qa_done(s, text) ==
    [(IF s.current_mode = "question" THEN Final_question(s, text) ELSE s)
       EXCEPT !.current_mode = "None", !.current_buffer = <<>>, !.current_has_text = FALSE]

\* lines 368-413: text = "".join(current_buffer)
Final_flush_qa_block(s) ==
    IF s.current_mode = "None" \/ s.current_buffer = <<>>
    THEN [s EXCEPT !.current_mode = "None", !.current_buffer = <<>>,
                   !.current_has_text = FALSE]
    ELSE Final_qa_done(
             Final_block(s, IF s.current_mode = "question" THEN "question" ELSE "answer",
                         IF s.current_mode = "question" THEN "question" ELSE "answer",
                         Concat(s.current_buffer), Concat(s.current_buffer)),
             Concat(s.current_buffer))

\* start_mode that keeps buffering across a change of classification
Final_start_mode_noflush(s, mode) ==
    IF s.current_mode = "None" THEN [s EXCEPT !.current_mode = mode] ELSE s

Final_start_mode(s, mode) ==
    IF s.current_mode = "None" THEN [s EXCEPT !.current_mode = mode]
    ELSE IF s.current_mode # mode
         THEN [Final_flush_qa_block(s) EXCEPT !.current_mode = mode]
    ELSE s

\* the run loop of the question/answer fallback (lines 573-579)
RECURSIVE Final_append_runs(_, _)
Final_append_runs(s, runs) ==
    IF runs = <<>> THEN s
    ELSE IF Head(runs).text = <<>> THEN Final_append_runs(s, Tail(runs))
    ELSE Final_append_runs(
             [Final_start_mode(s, IF Final_is_blue(Head(runs)) THEN "question" ELSE "answer")
                EXCEPT !.current_buffer = Append(@, Head(runs).text),
                       !.current_has_text = TRUE],
             Tail(runs))

\* lines 448-450: the bracketed token at the start of the line is not a known marker
Final_unknown_marker(stripped) ==
    /\ StartsWith(stripped, <<"[">>)
    /\ Contains(stripped, <<"]">>)
    /\ Upto(stripped, Find(stripped, <<"]">>) + 1) \notin Final_KNOWN_MARKERS

\* the chapter heading, recorded under the number parsed from it
Final_chapter_heading_by_number(s, raw_text, stripped) ==
    Final_block(insert_chapter([s EXCEPT !.current_chapter_num = CHAPTER_RE_match(stripped),
                                         !.current_chapter_title = stripped,
                                         !.question_counter = 0,
                                         !.block_order = 0,
                                         !.chapter_order = @ + 1,
                                         !.chapters_processed = @ + 1,
                                         !.intro_active = FALSE],
                               s.current_section_id, stripped, CHAPTER_RE_match(stripped)),
                "chapter", "chapter", raw_text, raw_text)

\* lines 458-478: the new chapter becomes current, is recorded and gets its block
Final_chapter_heading(s, raw_text, stripped) ==
    Final_block(insert_chapter([s EXCEPT !.current_chapter_num = CHAPTER_RE_match(stripped),
                                         !.current_chapter_title = stripped,
                                         !.question_counter = 0,
                                         !.block_order = 0,
                                         !.chapter_order = @ + 1,
                                         !.chapters_processed = @ + 1,
                                         !.intro_active = FALSE],
                               s.current_section_id, stripped, s.chapter_order + 1),
                "chapter", "chapter", raw_text, raw_text)

\* lines 454-478
Final_chapter(s, raw_text, stripped) ==
    Final_chapter_heading(Final_flush_qa_block(Final_flush_aggregate(s)), raw_text, stripped)

\* lines 483-500: the new section becomes current, is recorded and gets its block
Final_section_heading(s, raw_text, stripped) ==
    [Final_block(insert_section([s EXCEPT !.current_section_title = stripped,
                                          !.section_order = @ + 1,
                                          !.sections_total = @ + 1],
                                stripped, s.section_order + 1),
                 "section", "section", raw_text, raw_text)
       EXCEPT !.intro_active = FALSE]

\* lines 480-500
Final_section(s, raw_text, stripped) ==
    Final_section_heading(Final_flush_qa_block(Final_flush_aggregate(s)), raw_text, stripped)

\* lines 502-523
Final_intro(s, para, raw_text, stripped) ==
    LET all_bold == \A i \in 1..Len(para.runs) :
                        Strip(para.runs[i].text) # <<>> => para.runs[i].bold = "True"
    IN IF ~StartsWith(stripped, Marker(<<"I">>)) THEN s
       ELSE Final_block(Final_flush_qa_block(s), "intro",
                        IF all_bold THEN "intro_heading" ELSE "intro_paragraph",
                        raw_text,
                        IF all_bold
                        THEN <<"<", "s", "t", "r", "o", "n", "g", ">">> \o escape_html(raw_text)
                             \o <<"<", "/", "s", "t", "r", "o", "n", "g", ">">>
                        ELSE raw_text)

\* lines 530-546
Final_open_aggregate(s, type, raw_text) ==
    [Final_flush_qa_block(s) EXCEPT !.aggregated_type = type,
                                    !.aggregated_lines = <<raw_text>>]

\* lines 548-563
Final_note(s, raw_text) ==
    [Final_block(Final_flush_qa_block(s), "note", "note", raw_text, raw_text)
       EXCEPT !.notes_total = @ + 1]

\* lines 565-579: runs = [run for run in para.runs if run.text]; the buffer is
\* continued or flushed before the paragraph's runs are appended
Final_question_answer(s, para) ==
    LET runs == SelectSeq(para.runs, LAMBDA r : r.text # <<>>)
        first_mode == IF Final_is_blue(runs[1]) THEN "question" ELSE "answer"
    IN IF runs = <<>> THEN s
       ELSE Final_append_runs(
                IF s.current_mode # "None" /\ s.current_has_text
                THEN IF s.current_mode = first_mode
                     THEN [s EXCEPT !.current_buffer = Append(@, NL)]
                     ELSE Final_flush_qa_block(s)
                ELSE s,
                runs)

Final_dispatch_no_guard(s, para, raw_text, stripped) ==
    IF CHAPTER_RE_match(stripped) # NoneInt THEN Final_chapter(s, raw_text, stripped)
    ELSE IF StartsWith(stripped, Marker(<<"S">>)) THEN Final_section(s, raw_text, stripped)
    ELSE IF s.intro_active THEN Final_intro(s, para, raw_text, stripped)
    ELSE IF StartsWith(stripped, Marker(<<"N">>)) THEN Final_note(s, raw_text)
    ELSE Final_question_answer(s, para)

\* lines 454-579: the dispatch of a non-blank paragraph with no open aggregate
Final_dispatch(s, para, raw_text, stripped) ==
    IF CHAPTER_RE_match(stripped) # NoneInt THEN Final_chapter(s, raw_text, stripped)
    ELSE IF StartsWith(stripped, Marker(<<"S">>)) THEN Final_section(s, raw_text, stripped)
    ELSE IF s.intro_active THEN Final_intro(s, para, raw_text, stripped)
    ELSE IF s.current_chapter_title = NoneT
         THEN IF \E i \in 1..Len(para.runs) : Final_is_blue(para.runs[i])
              THEN [s EXCEPT !.anomalies = Append(@, [kind |-> "orphan_blue",
                                                      text |-> Upto(stripped, 80)])]
              ELSE s
    ELSE IF StartsWith(stripped, Marker(<<"P">>)) THEN Final_open_aggregate(s, "poetry", raw_text)
    ELSE IF StartsWith(stripped, Marker(<<"R">>))
         THEN Final_open_aggregate(s, "responsive", raw_text)
    ELSE IF StartsWith(stripped, Marker(<<"T">>)) THEN Final_open_aggregate(s, "table", raw_text)
    ELSE IF StartsWith(stripped, Marker(<<"N">>)) THEN Final_note(s, raw_text)
    ELSE Final_question_answer(s, para)

\* lines 443-579: a paragraph outside of an open aggregate
Final_line(s, para, raw_text, stripped) ==
    IF stripped = <<>>
    THEN IF s.current_mode # "None" /\ s.current_has_text
         THEN [s EXCEPT !.current_buffer = Append(@, NL)]
         ELSE s
    ELSE IF Final_unknown_marker(stripped) THEN [s EXCEPT !.raised = "unknown_marker"]
    ELSE Final_dispatch(s, para, raw_text, stripped)

\* lines 424-579: one iteration of the paragraph loop; the open aggregate takes
\* the paragraph or is flushed at a boundary (lines 428-441)
Final_paragraph(s, para) ==
    IF s.aggregated_type # "None" /\ ~AggregateBoundary(Strip(para.text))
    THEN [s EXCEPT !.aggregated_lines = Append(@, para.text)]
    ELSE Final_line(IF s.aggregated_type # "None" THEN Final_flush_aggregate(s) ELSE s,
                    para, para.text, Strip(para.text))

\* _validate
validate(db) ==
    LET orphan_chapters ==
            \E i \in 1..Len(db.brhc_chapters) :
                /\ db.brhc_chapters[i].section_id # NoneInt
                /\ \A j \in 1..Len(db.brhc_sections) :
                       db.brhc_sections[j].section_id # db.brhc_chapters[i].section_id
        orphan_blocks ==
            \E i \in 1..Len(db.doc_blocks) :
                /\ db.doc_blocks[i].chapter_title = NoneT
                /\ db.doc_blocks[i].block_type \notin {"intro_heading", "intro_paragraph", "section"}
        numbers(c) == {i \in 1..Len(db.d_questions) : db.d_questions[i].chapter_title = c}
        bad_numbering ==
            \E c \in {db.d_questions[i].chapter_title : i \in 1..Len(db.d_questions)} :
                \/ Cardinality(numbers(c)) #
                       MaxOf({db.d_questions[i].question_number : i \in numbers(c)})
                \/ MinOf({db.d_questions[i].question_number : i \in numbers(c)}) # 1
    IN (IF orphan_chapters THEN <<"Orphan chapters detected.">> ELSE <<>>)
       \o (IF orphan_blocks THEN <<"Orphan blocks detected (missing chapter_title).">> ELSE <<>>)
       \o (IF bad_numbering THEN <<"Question numbering not sequential per chapter.">> ELSE <<>>)

\* the end of input with no check of the image-owning ids
Final_checks_no_image_check(s) ==
    IF validate(s) # <<>> THEN [s EXCEPT !.raised = "validation_failed"] ELSE s

\* lines 583-594: the unmatched-image check, then the validator
Final_checks(s) ==
    IF s.image_block_ids \ s.used_block_ids # {}
    THEN [s EXCEPT !.raised = "unmatched_image_blocks"]
    ELSE IF validate(s) # <<>> THEN [s EXCEPT !.raised = "validation_failed"]
    ELSE s

\* lines 581-597: end of input; the result is the state with raised set, "None" for a commit
Final_finish(s) == Final_checks(Final_flush_qa_block(Final_flush_aggregate(s)))

-----------------------------------------------------------------------------
(* dlbDocxImport._run_import: run normalizer and state after BEGIN, clear *)

Docx_is_blue(r) == r.is_blue

\* _is_effective_bold / _is_effective_italic: explicit, else fallback, else style
is_effective(explicit, fallback, style_declares) ==
    IF explicit = "True" THEN TRUE
    ELSE IF explicit = "False" THEN FALSE
    ELSE IF fallback THEN TRUE
    ELSE style_declares

\* lines 598-615: a SimpleRun per run with text, or one run of the paragraph's text
base_runs(para) ==
    LET kept == SelectSeq(para.runs, LAMBDA r : r.text # <<>>)
    IN IF kept = <<>> /\ para.text # <<>>
       THEN <<SimpleRun(para.text, FALSE, FALSE, FALSE)>>
       ELSE [i \in 1..Len(kept) |->
                SimpleRun(kept[i].text,
                          is_effective(kept[i].bold, para.style_bold, kept[i].style_bold),
                          is_effective(kept[i].italic, para.style_italic, kept[i].style_italic),
                          kept[i].color_blue)]

Docx_begin(db) ==
    [doc_blocks |-> <<>>, d_questions |-> <<>>, questions |-> <<>>,
     brhc_sections |-> <<>>, brhc_chapters |-> <<>>,
     image_filenames |-> {Lower(f) : f \in db.brhc_images},
     section_order |-> 0, chapter_order |-> 0,
     current_section_title |-> NoneT, current_section_id |-> NoneInt,
     current_chapter_title |-> NoneT, current_chapter_num |-> NoneInt,
     block_order |-> 0, question_counter |-> 0, block_id |-> 1,
     sections_total |-> 0, chapters_processed |-> 0, questions_total |-> 0,
     notes_total |-> 0, poetry_total |-> 0, responsive_total |-> 0, tables_total |-> 0,
     title_refs_total |-> 0, image_links_total |-> 0,
     anomalies |-> <<>>, missing_pic_filenames |-> <<>>,
     intro_active |-> TRUE, aggregated_type |-> "None", aggregated_lines |-> <<>>,
     aggregated_markup |-> <<>>, aggregated_has_markup |-> FALSE,
     current_mode |-> "None", current_buffer |-> <<>>, current_has_text |-> FALSE,
     note_active |-> FALSE, note_lines |-> <<>>, note_markup |-> <<>>,
     note_has_markup |-> FALSE,
     raised |-> "None"]

\* a block is inserted under the next block_order with the next block_id
\* (block_order += 1; allocate_block_id(); _insert_doc_block(...))
Docx_emit(s, section_title, chapter_title, block_type, raw_text, normalized_text, table_json) ==
    insert_doc_block([s EXCEPT !.block_order = @ + 1, !.block_id = @ + 1],
                     s.block_id, section_title, chapter_title, s.block_order + 1,
                     block_type, raw_text, normalized_text, table_json)

\* Docx_emit under the current section and chapter titles
Docx_block(s, block_type, raw_text, normalized_text, table_json) ==
    Docx_emit(s, s.current_section_title, s.current_chapter_title, block_type,
              raw_text, normalized_text, table_json)

\* the image block keeps the block order of the block before it
insert_image_block_same_order(s, filename) ==
    insert_doc_block([s EXCEPT !.block_id = @ + 1, !.image_links_total = @ + 1],
                     s.block_id, s.current_section_title, s.current_chapter_title,
                     s.block_order, "image",
                     <<"[", "P", "i", "c", ":", " ">> \o filename \o <<"]">>,
                     <<"[", "P", "i", "c", ":", " ">> \o filename \o <<"]">>, NoneT)

\* _insert_image_block: token = f"[Pic: {filename}]"
insert_image_block(s, filename) ==
    [Docx_block(s, "image", <<"[", "P", "i", "c", ":", " ">> \o filename \o <<"]">>,
                <<"[", "P", "i", "c", ":", " ">> \o filename \o <<"]">>, NoneT)
       EXCEPT !.image_links_total = @ + 1]

Docx_flush_note(s) ==
    LET cleared == [s EXCEPT !.note_active = FALSE, !.note_lines = <<>>,
                             !.note_markup = <<>>, !.note_has_markup = FALSE]
        raw_text == Strip(Join(NL, s.note_lines))
    IN IF ~s.note_active \/ s.note_lines = <<>> THEN cleared
       ELSE [Docx_block(cleared, "note", raw_text,
                        IF s.note_has_markup THEN Strip(Join(NL, s.note_markup)) ELSE raw_text,
                        NoneT)
               EXCEPT !.notes_total = @ + 1]

\* json.dumps of one row: the cells of line.split("\t")
JsonRow(cells) == JsonList([j \in 1..Len(cells) |-> JsonString(cells[j])])

Docx_flush_aggregate(s) ==
    LET cleared == [s EXCEPT !.aggregated_type = "None", !.aggregated_lines = <<>>,
                             !.aggregated_markup = <<>>, !.aggregated_has_markup = FALSE]
        raw_text == Strip(Join(NL, s.aggregated_lines))
    IN IF s.aggregated_type = "None" \/ s.aggregated_lines = <<>> THEN cleared
       ELSE [Docx_block(cleared, s.aggregated_type, raw_text,
                        IF s.aggregated_has_markup THEN Strip(Join(NL, s.aggregated_markup))
                        ELSE raw_text,
                        IF s.aggregated_type = "table"
                        THEN JsonList([i \in 1..Len(s.aggregated_lines) |->
                                          JsonRow(SplitOn(s.aggregated_lines[i], "\t"))])
                        ELSE NoneT)
               EXCEPT
                 !.poetry_total = IF s.aggregated_type = "poetry" THEN @ + 1 ELSE @,
                 !.responsive_total = IF s.aggregated_type = "responsive" THEN @ + 1 ELSE @,
                 !.tables_total = IF s.aggregated_type = "table" THEN @ + 1 ELSE @]

\* flush_qa_block: target_id is the block_id before the call
Docx_flush_qa_block(s) ==
    LET cleared == [s EXCEPT !.current_mode = "None", !.current_buffer = <<>>,
                             !.current_has_text = FALSE]
        raw_text == Strip(RunTexts(s.current_buffer))
        mk == runs_to_markup(s.current_buffer)
        normalized_text == IF mk.has_markup THEN mk.text ELSE raw_text
    IN IF s.current_mode = "None" \/ s.current_buffer = <<>> THEN cleared
       ELSE IF s.current_mode = "question"
       THEN insert_question_row(
                insert_question(
                    [Docx_block(cleared, "question", raw_text, normalized_text, NoneT)
                       EXCEPT !.question_counter = @ + 1, !.questions_total = @ + 1],
                    s.block_id, s.question_counter + 1, raw_text,
                    s.current_section_title, s.current_chapter_title),
                s.current_section_title, s.current_chapter_title, s.current_chapter_num,
                s.question_counter + 1, raw_text)
       ELSE Docx_block(cleared, "answer", raw_text, normalized_text, NoneT)

\* start_mode that keeps buffering across a change of classification
Docx_start_mode_noflush(s, mode) ==
    IF s.current_mode = "None" THEN [s EXCEPT !.current_mode = mode] ELSE s

Docx_start_mode(s, mode) ==
    IF s.current_mode = "None" THEN [s EXCEPT !.current_mode = mode]
    ELSE IF s.current_mode # mode
         THEN [Docx_flush_qa_block(s) EXCEPT !.current_mode = mode]
    ELSE s

\* the run loop of the question/answer fallback (lines 885-891)
RECURSIVE Docx_append_runs(_, _)
Docx_append_runs(s, runs) ==
    IF runs = <<>> THEN s
    ELSE IF Head(runs).text = <<>> THEN Docx_append_runs(s, Tail(runs))
    ELSE Docx_append_runs(
             [Docx_start_mode(s, IF Docx_is_blue(Head(runs)) THEN "question" ELSE "answer")
                EXCEPT !.current_buffer = Append(@, Head(runs)), !.current_has_text = TRUE],
             Tail(runs))

\* lines 621-629: an image block per [Pic: name] match with a non-empty name,
\* recorded as missing when it is not a name of brhc_images
RECURSIVE Docx_pic_blocks(_, _)
Docx_pic_blocks(s, matches) ==
    IF matches = <<>> THEN s
    ELSE IF Strip(Head(matches).group1) = <<>> THEN Docx_pic_blocks(s, Tail(matches))
    ELSE Docx_pic_blocks(
             [insert_image_block(s, Strip(Head(matches).group1))
                EXCEPT !.missing_pic_filenames =
                           IF Lower(Strip(Head(matches).group1)) \notin s.image_filenames
                           THEN Append(@, Strip(Head(matches).group1)) ELSE @],
             Tail(matches))

\* the boundary test of an open note without the test for a blue run
NoteBoundary_markers_only(stripped, segment) ==
    \/ \E c \in {<<"S">>, <<"C", "h">>, <<"N">>, <<"P">>, <<"R">>, <<"T">>} :
          StartsWith(stripped, Marker(c))
    \/ CHAPTER_RE_match(stripped) # NoneInt

\* the boundary test of an open note (lines 651-660)
NoteBoundary(stripped, segment) ==
    \/ \E c \in {<<"S">>, <<"C", "h">>, <<"N">>, <<"P">>, <<"R">>, <<"T">>} :
          StartsWith(stripped, Marker(c))
    \/ CHAPTER_RE_match(stripped) # NoneInt
    \/ \E i \in 1..Len(segment) : Docx_is_blue(segment[i])

\* the chapter heading without the reset of the question counter
Docx_chapter_heading_noreset(s, stripped, content) ==
    Docx_block(insert_chapter([s EXCEPT !.current_chapter_num = CHAPTER_RE_match(stripped),
                                        !.current_chapter_title = content,
                                        !.block_order = 0,
                                        !.chapter_order = @ + 1,
                                        !.chapters_processed = @ + 1,
                                        !.intro_active = FALSE],
                              s.current_section_id, content, s.chapter_order + 1),
               "chapter", content, content, NoneT)

\* lines 690-716: the new chapter becomes current, is recorded and gets its block
Docx_chapter_heading(s, stripped, content) ==
    Docx_block(insert_chapter([s EXCEPT !.current_chapter_num = CHAPTER_RE_match(stripped),
                                        !.current_chapter_title = content,
                                        !.question_counter = 0,
                                        !.block_order = 0,
                                        !.chapter_order = @ + 1,
                                        !.chapters_processed = @ + 1,
                                        !.intro_active = FALSE],
                              s.current_section_id, content, s.chapter_order + 1),
               "chapter", content, content, NoneT)

\* the chapter branch with the question/answer buffer flushed after the heading
Docx_chapter_late_flush(s, stripped) ==
    Docx_flush_qa_block(
        Docx_chapter_heading(Docx_flush_aggregate(Docx_flush_note(s)),
                             stripped, Strip(RemoveFirst(stripped, Marker(<<"C", "h">>)))))

\* lines 686-716: content = stripped.replace("[Ch]", "", 1).strip()
Docx_chapter(s, stripped) ==
    Docx_chapter_heading(Docx_flush_qa_block(Docx_flush_aggregate(Docx_flush_note(s))),
                         stripped, Strip(RemoveFirst(stripped, Marker(<<"C", "h">>))))

\* the section branch without intro_active = False
Docx_section_heading_keeps_intro(s, content) ==
    Docx_emit(insert_section([s EXCEPT !.current_section_title = content,
                                       !.section_order = @ + 1,
                                       !.sections_total = @ + 1],
                             content, s.section_order + 1),
              content, NoneT, "section", content, content, NoneT)

\* lines 723-745: the new section becomes current, is recorded and gets its block
Docx_section_heading(s, content) ==
    [Docx_emit(insert_section([s EXCEPT !.current_section_title = content,
                                        !.section_order = @ + 1,
                                        !.sections_total = @ + 1],
                              content, s.section_order + 1),
               content, NoneT, "section", content, content, NoneT)
       EXCEPT !.intro_active = FALSE]

\* lines 718-745: content = stripped.replace("[S]", "", 1).strip()
Docx_section(s, stripped) ==
    Docx_section_heading(Docx_flush_qa_block(Docx_flush_aggregate(Docx_flush_note(s))),
                         Strip(RemoveFirst(stripped, Marker(<<"S">>))))

\* lines 753-771 and 777-795: the intro block of content, when there is content
Docx_intro_block(s, content, mk) ==
    IF content = <<>> THEN s
    ELSE Docx_emit(s, NoneT, NoneT,
                   IF note_heading(content) THEN "intro_heading" ELSE "intro_paragraph",
                   content, IF mk.has_markup THEN mk.text ELSE content, NoneT)

\* lines 747-796: an intro block from the given runs and content
Docx_intro(s, runs, content) ==
    Docx_intro_block(Docx_flush_qa_block(Docx_flush_note(s)), content, runs_to_markup(runs))

\* lines 805-835: (markup, has_markup) of the segment is not computed for a table
Docx_open_aggregate(s, type, marker, segment, stripped) ==
    [Docx_flush_qa_block(Docx_flush_note(s))
       EXCEPT !.aggregated_type = type,
              !.aggregated_lines = <<Strip(RemoveFirst(stripped, marker))>>,
              !.aggregated_markup =
                  IF type = "table" THEN <<>> ELSE <<runs_to_markup(segment).text>>,
              !.aggregated_has_markup =
                  IF type = "table" THEN FALSE ELSE runs_to_markup(segment).has_markup]

\* the note opened with the question/answer buffer left as it is
Docx_open_note_keeps_buffer(s, segment, raw_text) ==
    [s EXCEPT !.note_active = TRUE, !.note_lines = <<Strip(raw_text)>>,
              !.note_markup = <<runs_to_markup(segment).text>>,
              !.note_has_markup = runs_to_markup(segment).has_markup]

\* lines 837-844
Docx_open_note(s, segment, raw_text) ==
    [Docx_flush_qa_block(s)
       EXCEPT !.note_active = TRUE, !.note_lines = <<Strip(raw_text)>>,
              !.note_markup = <<runs_to_markup(segment).text>>,
              !.note_has_markup = runs_to_markup(segment).has_markup]

\* lines 851-872: the title_ref block of the two sides of split_pair and their markup
Docx_title_block(s, sp, parts) ==
    LET lm == runs_to_markup(parts.left)
        rm == runs_to_markup(parts.right)
    IN [Docx_block(s, "title_ref", sp.left \o NL \o sp.right,
                   (IF lm.has_markup THEN lm.text ELSE sp.left) \o NL
                       \o (IF rm.has_markup THEN rm.text ELSE sp.right),
                   JsonLeftRight(sp.left, sp.right))
          EXCEPT !.title_refs_total = @ + 1]

\* lines 846-872: left_runs, right_runs = _split_runs_by_span(...)
Docx_title_ref(s, segment, sp) ==
    Docx_title_block(Docx_flush_qa_block(Docx_flush_note(s)), sp,
                     split_runs_by_span(segment, sp.span_start, sp.span_end))

\* the buffer flushed before every segment's runs
Docx_join_always_flush(s, first_mode) ==
    IF s.current_mode # "None" /\ s.current_has_text THEN Docx_flush_qa_block(s) ELSE s

\* lines 877-884: the buffer is continued or flushed before the segment's runs
Docx_join(s, first_mode) ==
    IF s.current_mode # "None" /\ s.current_has_text
    THEN IF s.current_mode = first_mode
         THEN [s EXCEPT !.current_buffer = Append(@, SimpleRun(NL, FALSE, FALSE, FALSE))]
         ELSE Docx_flush_qa_block(s)
    ELSE s

\* lines 874-891: runs = [run for run in segment if run.text]
Docx_question_answer(s, segment) ==
    LET runs == SelectSeq(segment, LAMBDA r : r.text # <<>>)
    IN IF runs = <<>> THEN s
       ELSE Docx_append_runs(Docx_join(Docx_flush_note(s),
                                       IF Docx_is_blue(runs[1]) THEN "question" ELSE "answer"),
                             runs)

\* the dispatch of a segment, with the check for a chapter left out
Docx_dispatch_no_guard(s, segment, raw_text, stripped) ==
    IF CHAPTER_RE_match(stripped) # NoneInt THEN Docx_chapter(s, stripped)
    ELSE IF StartsWith(stripped, Marker(<<"S">>)) THEN Docx_section(s, stripped)
    ELSE IF StartsWith(stripped, Marker(<<"N">>)) THEN Docx_open_note(s, segment, raw_text)
    ELSE Docx_question_answer(s, segment)

\* lines 677-891: the dispatch of a non-blank segment with no open aggregate or note
\* (the marker inspection of lines 677-684 has no effect)
Docx_dispatch(s, segment, raw_text, stripped) ==
    IF CHAPTER_RE_match(stripped) # NoneInt THEN Docx_chapter(s, stripped)
    ELSE IF StartsWith(stripped, Marker(<<"S">>)) THEN Docx_section(s, stripped)
    ELSE IF s.intro_active /\ StartsWith(stripped, Marker(<<"I">>))
         THEN Docx_intro(s, strip_marker_prefix_runs(segment, Marker(<<"I">>)),
                         Strip(RunTexts(strip_marker_prefix_runs(segment, Marker(<<"I">>)))))
    ELSE IF s.intro_active /\ s.current_section_title = NoneT /\ s.current_chapter_title = NoneT
         THEN Docx_intro(s, segment, Strip(raw_text))
    ELSE IF s.current_chapter_title = NoneT
         THEN IF \E i \in 1..Len(segment) : Docx_is_blue(segment[i])
              THEN [s EXCEPT !.anomalies = Append(@, [kind |-> "orphan_blue",
                                                      text |-> Upto(stripped, 80)])]
              ELSE s
    ELSE IF StartsWith(stripped, Marker(<<"P">>))
         THEN Docx_open_aggregate(s, "poetry", Marker(<<"P">>), segment, stripped)
    ELSE IF StartsWith(stripped, Marker(<<"R">>))
         THEN Docx_open_aggregate(s, "responsive", Marker(<<"R">>), segment, stripped)
    ELSE IF StartsWith(stripped, Marker(<<"T">>))
         THEN Docx_open_aggregate(s, "table", Marker(<<"T">>), segment, stripped)
    ELSE IF StartsWith(stripped, Marker(<<"N">>)) THEN Docx_open_note(s, segment, raw_text)
    ELSE IF find_title_reference_span(raw_text).found
         THEN Docx_title_ref(s, segment, find_title_reference_span(raw_text))
    ELSE Docx_question_answer(s, segment)

\* lines 670-891: a segment outside of an open aggregate or note
Docx_line(s, segment, raw_text, stripped) ==
    IF stripped = <<>>
    THEN IF s.current_mode # "None" /\ s.current_has_text
         THEN [s EXCEPT !.current_buffer = Append(@, SimpleRun(NL, FALSE, FALSE, FALSE))]
         ELSE s
    ELSE Docx_dispatch(s, segment, raw_text, stripped)

\* lines 650-668: the open note takes the segment or is flushed at a boundary
Docx_note_branch(s, segment, raw_text, stripped) ==
    IF s.note_active /\ ~NoteBoundary(stripped, segment)
    THEN [s EXCEPT !.note_lines = Append(@, raw_text),
                   !.note_markup = Append(@, runs_to_markup(segment).text),
                   !.note_has_markup = @ \/ runs_to_markup(segment).has_markup]
    ELSE Docx_line(IF s.note_active THEN Docx_flush_note(s) ELSE s,
                   segment, raw_text, stripped)

\* lines 632-648: the open aggregate takes the segment or is flushed at a boundary
Docx_aggregate_branch(s, segment, raw_text, stripped) ==
    IF s.aggregated_type # "None" /\ ~AggregateBoundary(stripped)
    THEN [s EXCEPT !.aggregated_lines = Append(@, raw_text),
                   !.aggregated_markup = Append(@, runs_to_markup(segment).text),
                   !.aggregated_has_markup = @ \/ runs_to_markup(segment).has_markup]
    ELSE Docx_note_branch(IF s.aggregated_type # "None" THEN Docx_flush_aggregate(s) ELSE s,
                          segment, raw_text, stripped)

\* the segment loop with the image blocks inserted after the segment's dispatch
Docx_segment_pics_last(s, segment) ==
    LET pic_matches == PIC_TAG_RE_finditer(RunTexts(segment), 0)
        raw_text == IF pic_matches # <<>> THEN PIC_TAG_RE_sub(RunTexts(segment), 0)
                    ELSE RunTexts(segment)
    IN Docx_pic_blocks(Docx_aggregate_branch(s, segment, raw_text, Strip(raw_text)), pic_matches)

\* lines 618-891: one iteration of the segment loop; raw_text is the segment's
\* text, without its [Pic: ...] tags when it has any
Docx_segment(s, segment) ==
    LET pic_matches == PIC_TAG_RE_finditer(RunTexts(segment), 0)
        raw_text == IF pic_matches # <<>> THEN PIC_TAG_RE_sub(RunTexts(segment), 0)
                    ELSE RunTexts(segment)
    IN Docx_aggregate_branch(Docx_pic_blocks(s, pic_matches), segment, raw_text, Strip(raw_text))

RECURSIVE Docx_segments(_, _)
Docx_segments(s, segments) ==
    IF segments = <<>> THEN s
    ELSE Docx_segments(Docx_segment(s, Head(segments)), Tail(segments))

\* lines 597-891: one iteration of the paragraph loop
Docx_paragraph(s, para) ==
    Docx_segments(s, split_runs_on_marker(base_runs(para), Marker(<<"N">>)))

\* lines 897-901
Docx_missing(s) ==
    IF s.missing_pic_filenames # <<>>
    THEN [s EXCEPT !.anomalies =
             Append(@, [kind |-> "missing_pic",
                        filenames |-> {s.missing_pic_filenames[i] :
                                         i \in 1..Len(s.missing_pic_filenames)}])]
    ELSE s

\* the end of input, with the open note left in its buffer
Docx_finish_keeps_note(s) == Docx_missing(Docx_flush_qa_block(Docx_flush_aggregate(s)))

\* lines 893-901: end of input
Docx_finish(s) == Docx_missing(Docx_flush_note(Docx_flush_qa_block(Docx_flush_aggregate(s))))

-----------------------------------------------------------------------------
(* Documents: the paragraphs a document is drawn from *)

T_Chapter1 == <<"C", "h", "a", "p", "t", "e", "r", " ", "1">>
T_Chapter2 == <<"C", "h", "a", "p", "t", "e", "r", " ", "2">>
T_Note == <<"[", "N", "]", " ", "O", "l", "d", " ", "n", "o", "t", "e">>
T_Stale == <<"[", "N", "]", " ", "o", "l", "d">>
T_Question == <<"W", "h", "a", "t", " ", "i", "s", " ", "s", "i", "n", "?">>
T_Answer == <<"S", "i", "n", " ", "i", "s", " ", "t", "r", "a", "n", "s", "g", "r", "e", "s", "s", "i", "o", "n", " ", "o", "f", " ", "l", "a", "w", ".">>
T_Creation == <<"T", "h", "e", " ", "C", "r", "e", "a", "t", "i", "o", "n">>
T_Genesis == <<"G", "e", "n", "e", "s", "i", "s", " ", "1", ":", "1">>
T_Leader == <<"\t", ".", ".", ".", ".", ".", ".", ".">>
T_Pic == <<"[", "P", "i", "c", ":", " ", "a", "]">>
T_TwoNotes == <<"[", "N", "]", " ", "a", " ", "[", "N", "]", " ", "b">>
T_Example == <<"b", "e", "f", "o", "r", "e", " ", "t", "e", "x", "t", " ", "[", "N", "]", " ", "a", "f", "t", "e", "r", " ", "t", "e", "x", "t">>

Para(name) ==
    CASE name = "H1" -> DocxPara(<<DocxRun(T_Chapter1, "None", "None", FALSE)>>)
      [] name = "S" -> DocxPara(<<DocxRun(<<"[", "S", "]", " ", "A">>, "None", "None", FALSE)>>)
      [] name = "I" -> DocxPara(<<DocxRun(<<"[", "I", "]", " ", "x">>, "True", "None", FALSE)>>)
      [] name = "N" -> DocxPara(<<DocxRun(T_Note, "None", "None", FALSE)>>)
      [] name = "P" -> DocxPara(<<DocxRun(<<"[", "P", "]", " ", "v">>, "None", "True", FALSE)>>)
      [] name = "X" -> DocxPara(<<DocxRun(<<"[", "X", "]", " ", "y">>, "None", "None", FALSE)>>)
      [] name = "PIC" -> DocxPara(<<DocxRun(<<"[", "P", "i", "c", ":", " ", "a", "]">>,
                                            "None", "None", FALSE)>>)
      [] name = "QA" -> DocxPara(<<DocxRun(T_Question, "None", "None", TRUE),
                                   DocxRun(T_Answer, "None", "None", FALSE)>>)
      [] name = "Q" -> DocxPara(<<DocxRun(<<"q", "?">>, "None", "None", TRUE)>>)
      [] name = "B" -> DocxPara(<<>>)
      [] name = "CHI" -> DocxPara(<<DocxRun(<<"[", "C", "h", "]", " ", "I", "n", "t", "r", "o">>,
                                            "None", "None", FALSE)>>)
      [] name = "ch2" -> DocxPara(<<DocxRun(<<"c", "h", "a", "p", "t", "e", "r", " ", "2">>,
                                            "None", "None", FALSE)>>)
      [] name = "PT" -> DocxPara(<<DocxRun(<<"x", " ">> \o T_Pic \o <<" ", "y">>,
                                           "None", "None", FALSE)>>)
      [] name = "TR" -> DocxPara(<<DocxRun(T_Creation \o T_Leader \o T_Genesis,
                                           "None", "None", FALSE)>>)
      [] name = "AN" -> DocxPara(<<DocxRun(T_Example, "None", "None", FALSE)>>)
      [] name = "QsQ" -> DocxPara(<<DocxRun(<<"q", "?">>, "None", "None", TRUE),
                                    DocxRun(<<" ">>, "None", "None", FALSE),
                                    DocxRun(<<"r", "?">>, "None", "None", TRUE)>>)

-----------------------------------------------------------------------------
(* Databases a run may start from *)

EmptyStore ==
    [doc_blocks |-> <<>>, d_questions |-> <<>>, questions |-> <<>>,
     brhc_sections |-> <<>>, brhc_chapters |-> <<>>,
     brhc_image_block_map |-> {}, brhc_images |-> {}]

\* an earlier import of "Chapter 1" + a note; image_ids names the blocks with an image
StoreChapterNote(chapter_id, note_id, note_text, image_ids) ==
    [EmptyStore EXCEPT
       !.doc_blocks =
           RowsById(<<BlockRow(chapter_id, NoneT, T_Chapter1, 1, "chapter",
                               T_Chapter1, T_Chapter1, NoneT, NoneInt),
                      BlockRow(note_id, NoneT, T_Chapter1, 2, "note",
                               note_text, note_text, NoneT, NoneInt)>>,
                    {chapter_id, note_id}),
       !.brhc_chapters = <<[section_id |-> NoneInt, chapter_title |-> T_Chapter1,
                            order_index |-> 1]>>,
       !.brhc_image_block_map = image_ids]

FinalStores ==
    {EmptyStore,
     StoreChapterNote(41, 42, T_Note, {42}),
     StoreChapterNote(7, 3, T_Stale, {3, 7}),
     StoreChapterNote(1, 2, T_Stale, {})}

\* run lists for _split_runs_on_marker: every text of up to MaxTextLen characters
\* cut into three runs of different styles, and the one-run paragraphs T_Example
\* and T_TwoNotes
SplitInputs ==
    {<<SimpleRun(T_Example, FALSE, FALSE, FALSE)>>, <<SimpleRun(T_TwoNotes, FALSE, FALSE, FALSE)>>}
    \cup {<<SimpleRun(SubSeq(x[1], 1, x[2]), TRUE, FALSE, FALSE),
            SimpleRun(SubSeq(x[1], x[2] + 1, x[3]), FALSE, TRUE, FALSE),
            SimpleRun(SubSeq(x[1], x[3] + 1, Len(x[1])), FALSE, FALSE, TRUE)>> :
             x \in {y \in (UNION {[1..k -> {"a", " ", "[", "N", "]"}] : k \in 0..MaxTextLen})
                              \X (0..MaxTextLen) \X (0..MaxTextLen) :
                        y[2] <= y[3] /\ y[3] <= Len(y[1])}}

-----------------------------------------------------------------------------
(* Actions: the strict import, dlbImportBRHCFinal.main *)

\* the paragraph loop reads one paragraph (from the document under re-import in run 2)
FinalRead ==
    /\ pc = "read" /\ variant = "final"
    /\ \E p \in palette :
          /\ IF run = 1 THEN Len(doc) < limit ELSE replay # <<>> /\ p = Head(replay)
          /\ m' = Final_paragraph(m, Para(p))
          /\ doc' = IF run = 1 THEN Append(doc, p) ELSE doc
          /\ replay' = IF run = 1 THEN replay ELSE Tail(replay)
          /\ IF m'.raised # "None"
             THEN /\ store' = rollback(m', store)
                  /\ pc' = "done"
                  /\ outcome' = "rollback"
             ELSE UNCHANGED <<store, pc, outcome>>
    /\ UNCHANGED <<variant, palette, store0, run, first, limit, fn_arg, fn_res>>

\* end of input: final flushes, the unmatched-image check, the validator, commit
FinalEnd ==
    /\ pc = "read" /\ variant = "final"
    /\ run = 2 => replay = <<>>
    /\ m' = Final_finish(m)
    /\ IF m'.raised # "None"
       THEN store' = rollback(m', store) /\ outcome' = "rollback"
       ELSE store' = commit(m', store) /\ outcome' = "commit"
    /\ pc' = "done"
    /\ UNCHANGED <<variant, palette, doc, store0, run, replay, first, limit, fn_arg, fn_res>>

\* the same document is imported again, from the database the first run committed
FinalRerun ==
    /\ pc = "done" /\ variant = "final" /\ run = 1 /\ outcome = "commit"
    /\ run' = 2
    /\ replay' = doc
    /\ first' = store.doc_blocks
    /\ m' = Final_begin(store)
    /\ pc' = "read"
    /\ outcome' = "none"
    /\ UNCHANGED <<variant, palette, doc, store, store0, limit, fn_arg, fn_res>>

InitFinal ==
    /\ pc = "read" /\ variant = "final"
    /\ palette = {"H1", "N", "P", "X", "Q"}
    /\ limit = MaxParas
    /\ doc = <<>>
    /\ store \in FinalStores
    /\ store0 = store
    /\ m = Final_begin(store)
    /\ outcome = "none" /\ run = 1 /\ replay = <<>> /\ first = <<>>
    /\ fn_arg = <<>> /\ fn_res = <<>>

NextFinal == FinalRead \/ FinalEnd

SpecFinal == InitFinal /\ [][NextFinal]_vars

\* the strict import followed by a re-import of the same document
InitRerun ==
    /\ pc = "read" /\ variant = "final"
    /\ palette = {"H1", "N", "Q"}
    /\ limit = MaxParas
    /\ doc = <<>>
    /\ store \in {StoreChapterNote(41, 42, T_Note, {42}), StoreChapterNote(7, 3, T_Stale, {3, 7})}
    /\ store0 = store
    /\ m = Final_begin(store)
    /\ outcome = "none" /\ run = 1 /\ replay = <<>> /\ first = <<>>
    /\ fn_arg = <<>> /\ fn_res = <<>>

NextRerun == FinalRead \/ FinalEnd \/ FinalRerun

SpecRerun == InitRerun /\ [][NextRerun]_vars

-----------------------------------------------------------------------------
(* Actions: the live import, dlbDocxImport._run_import *)

DocxRead ==
    /\ pc = "read" /\ variant = "docx"
    /\ Len(doc) < limit
    /\ \E p \in palette :
          /\ m' = Docx_paragraph(m, Para(p))
          /\ doc' = Append(doc, p)
    /\ UNCHANGED <<pc, variant, palette, store, store0, outcome, run, replay, first, limit,
                   fn_arg, fn_res>>

DocxEnd ==
    /\ pc = "read" /\ variant = "docx"
    /\ m' = Docx_finish(m)
    /\ store' = commit(m', store)
    /\ outcome' = "commit"
    /\ pc' = "done"
    /\ UNCHANGED <<variant, palette, doc, store0, run, replay, first, limit, fn_arg, fn_res>>

\* both variants on a fresh database
Init ==
    /\ pc = "read" /\ variant \in {"final", "docx"}
    /\ palette = {"H1", "S", "I", "N", "P", "QA", "B", "PIC"}
    /\ limit = MaxParas
    /\ doc = <<>>
    /\ store = EmptyStore
    /\ store0 = store
    /\ m = IF variant = "final" THEN Final_begin(store) ELSE Docx_begin(store)
    /\ outcome = "none" /\ run = 1 /\ replay = <<>> /\ first = <<>>
    /\ fn_arg = <<>> /\ fn_res = <<>>

Next == FinalRead \/ FinalEnd \/ DocxRead \/ DocxEnd

Spec == Init /\ [][Next]_vars

\* the live import alone, on headings and title lines
InitHead ==
    /\ pc = "read" /\ variant = "docx"
    /\ palette = {"H1", "CHI", "ch2", "TR", "Q"}
    /\ limit = MaxParas
    /\ doc = <<>>
    /\ store = EmptyStore
    /\ store0 = store
    /\ m = Docx_begin(store)
    /\ outcome = "none" /\ run = 1 /\ replay = <<>> /\ first = <<>>
    /\ fn_arg = <<>> /\ fn_res = <<>>

NextHead == DocxRead \/ DocxEnd

SpecHead == InitHead /\ [][NextHead]_vars

\* the live import alone, on paragraphs with [Pic: ...] tags, with and without
\* the image file "a" in brhc_images
InitPic ==
    /\ pc = "read" /\ variant = "docx"
    /\ palette = {"H1", "N", "P", "Q", "PT", "PIC"}
    /\ limit = MaxParas
    /\ doc = <<>>
    /\ store \in {EmptyStore, [EmptyStore EXCEPT !.brhc_images = {<<"a">>}]}
    /\ store0 = store
    /\ m = Docx_begin(store)
    /\ outcome = "none" /\ run = 1 /\ replay = <<>> /\ first = <<>>
    /\ fn_arg = <<>> /\ fn_res = <<>>

NextPic == DocxRead \/ DocxEnd

SpecPic == InitPic /\ [][NextPic]_vars

\* both variants on a fresh database, on intro lines, sections and chapters
InitIntro ==
    /\ pc = "read" /\ variant \in {"final", "docx"}
    /\ palette = {"H1", "ch2", "S", "I", "Q", "QA", "N", "P"}
    /\ limit = MaxParas
    /\ doc = <<>>
    /\ store = EmptyStore
    /\ store0 = store
    /\ m = IF variant = "final" THEN Final_begin(store) ELSE Docx_begin(store)
    /\ outcome = "none" /\ run = 1 /\ replay = <<>> /\ first = <<>>
    /\ fn_arg = <<>> /\ fn_res = <<>>

NextIntro == FinalRead \/ FinalEnd \/ DocxRead \/ DocxEnd

SpecIntro == InitIntro /\ [][NextIntro]_vars

\* both variants on a fresh database, on headings, notes, poetry and questions
InitFlush ==
    /\ pc = "read" /\ variant \in {"final", "docx"}
    /\ palette = {"H1", "S", "N", "P", "Q", "QA", "B"}
    /\ limit = MaxParas
    /\ doc = <<>>
    /\ store = EmptyStore
    /\ store0 = store
    /\ m = IF variant = "final" THEN Final_begin(store) ELSE Docx_begin(store)
    /\ outcome = "none" /\ run = 1 /\ replay = <<>> /\ first = <<>>
    /\ fn_arg = <<>> /\ fn_res = <<>>

NextFlush == FinalRead \/ FinalEnd \/ DocxRead \/ DocxEnd

SpecFlush == InitFlush /\ [][NextFlush]_vars

\* the live import alone, on paragraphs of one segment and of two ("AN") and
\* on runs of both colours in one segment
InitSeg ==
    /\ pc = "read" /\ variant = "docx"
    /\ palette = {"H1", "Q", "QA", "QsQ", "N", "AN", "P", "B"}
    /\ limit = MaxParas
    /\ doc = <<>>
    /\ store = EmptyStore
    /\ store0 = store
    /\ m = Docx_begin(store)
    /\ outcome = "none" /\ run = 1 /\ replay = <<>> /\ first = <<>>
    /\ fn_arg = <<>> /\ fn_res = <<>>

NextSeg == DocxRead \/ DocxEnd

SpecSeg == InitSeg /\ [][NextSeg]_vars

\* both variants on a fresh database, on a heading and the paragraphs a buffer takes
InitEnd ==
    /\ pc = "read" /\ variant \in {"final", "docx"}
    /\ palette = {"H1", "N", "P", "QA", "B"}
    /\ limit = MaxParas
    /\ doc = <<>>
    /\ store = EmptyStore
    /\ store0 = store
    /\ m = IF variant = "final" THEN Final_begin(store) ELSE Docx_begin(store)
    /\ outcome = "none" /\ run = 1 /\ replay = <<>> /\ first = <<>>
    /\ fn_arg = <<>> /\ fn_res = <<>>

NextEnd == FinalRead \/ FinalEnd \/ DocxRead \/ DocxEnd

\* the loop is over a finite list of paragraphs, and the flushes of the end of
\* input follow it: no run waits for the end of its input forever
SpecEnd == InitEnd /\ [][NextEnd]_vars /\ WF_vars(FinalEnd) /\ WF_vars(DocxEnd)

-----------------------------------------------------------------------------
(* A call of dlbDocxImport._split_runs_on_marker(runs, "[N]") *)

SplitCall ==
    /\ pc = "call" /\ variant = "split"
    /\ fn_res' = split_runs_on_marker(fn_arg, Marker(<<"N">>))
    /\ pc' = "return"
    /\ UNCHANGED <<variant, palette, doc, m, store, store0, outcome, run, replay, first, limit,
                   fn_arg>>

InitSplit ==
    /\ pc = "call" /\ variant = "split"
    /\ fn_arg \in SplitInputs
    /\ fn_res = <<>>
    /\ palette = {} /\ limit = 0 /\ doc = <<>>
    /\ store = EmptyStore /\ store0 = store /\ m = EmptyStore
    /\ outcome = "none" /\ run = 1 /\ replay = <<>> /\ first = <<>>

SpecSplit == InitSplit /\ [][SplitCall]_vars

-----------------------------------------------------------------------------
(* A call of dlbDocxImport._runs_to_markup(runs) *)

\* run lists for _runs_to_markup: up to MaxRuns runs of every style, with an
\* empty text, one character or two
MarkupInputs ==
    UNION {[1..k -> {SimpleRun(x[1], x[2], x[3], FALSE) :
                        x \in {<<>>, <<"a">>, <<"b", "c">>} \X BOOLEAN \X BOOLEAN}] :
             k \in 0..MaxRuns}

MarkupCall ==
    /\ pc = "call" /\ variant = "markup"
    /\ fn_res' = runs_to_markup(fn_arg)
    /\ pc' = "return"
    /\ UNCHANGED <<variant, palette, doc, m, store, store0, outcome, run, replay, first, limit,
                   fn_arg>>

InitMarkup ==
    /\ pc = "call" /\ variant = "markup"
    /\ fn_arg \in MarkupInputs
    /\ fn_res = <<>>
    /\ palette = {} /\ limit = 0 /\ doc = <<>>
    /\ store = EmptyStore /\ store0 = store /\ m = EmptyStore
    /\ outcome = "none" /\ run = 1 /\ replay = <<>> /\ first = <<>>

SpecMarkup == InitMarkup /\ [][MarkupCall]_vars

-----------------------------------------------------------------------------
(* A call of dlbImportBRHCFinal._render_table(lines) *)

\* lines of a table aggregate: without a delimiter, with pipes, with a tab,
\* with both, with the marker and a character that HTML escapes
TableLines ==
    {<<"a">>, <<"a", "|", "b">>, <<"a", "\t", "b">>, <<"a", "|", "b", "|", "c">>,
     <<"a", "|", "b", "\t", "c">>, <<"[", "T", "]", " ", "<", "|", "b">>}

\* the non-empty lists of up to MaxLines lines
TableInputs == UNION {[1..k -> TableLines] : k \in 1..MaxLines}

RenderCall ==
    /\ pc = "call" /\ variant = "table"
    /\ fn_res' = render_table(fn_arg)
    /\ pc' = "return"
    /\ UNCHANGED <<variant, palette, doc, m, store, store0, outcome, run, replay, first, limit,
                   fn_arg>>

InitRender ==
    /\ pc = "call" /\ variant = "table"
    /\ fn_arg \in TableInputs
    /\ fn_res = <<>>
    /\ palette = {} /\ limit = 0 /\ doc = <<>>
    /\ store = EmptyStore /\ store0 = store /\ m = EmptyStore
    /\ outcome = "none" /\ run = 1 /\ replay = <<>> /\ first = <<>>

SpecRender == InitRender /\ [][RenderCall]_vars

-----------------------------------------------------------------------------
(* A call of dlbImportBRHCFinal._validate(cur) *)

\* the row of d_questions of block block_id, question number n of chapter c
QuestionRow(block_id, c, n) ==
    [block_id |-> block_id, question_number |-> n, question_text |-> <<"q", "?">>,
     section_title |-> NoneT, chapter_title |-> c]

\* databases with up to MaxQuestions question rows of two chapters, numbered
\* from 1 to MaxQuestions in any order and with repeats, and nothing else
ValidateInputs ==
    {[EmptyStore EXCEPT !.d_questions = [i \in DOMAIN x |-> QuestionRow(i, x[i][1], x[i][2])]] :
        x \in UNION {[1..k -> {T_Chapter1, T_Chapter2} \X (1..MaxQuestions)] :
                       k \in 0..MaxQuestions}}

ValidateCall ==
    /\ pc = "call" /\ variant = "validate"
    /\ fn_res' = validate(fn_arg)
    /\ pc' = "return"
    /\ UNCHANGED <<variant, palette, doc, m, store, store0, outcome, run, replay, first, limit,
                   fn_arg>>

InitValidate ==
    /\ pc = "call" /\ variant = "validate"
    /\ fn_arg \in ValidateInputs
    /\ fn_res = <<>>
    /\ palette = {} /\ limit = 0 /\ doc = <<>>
    /\ store = EmptyStore /\ store0 = store /\ m = EmptyStore
    /\ outcome = "none" /\ run = 1 /\ replay = <<>> /\ first = <<>>

SpecValidate == InitValidate /\ [][ValidateCall]_vars

-----------------------------------------------------------------------------
(* dlbFix: rebuild_d_questions_from_blocks(cur) *)

\* re.sub(r"^\s*\d+[\.\)]\s*", "", text)
StripNumberDot(text) ==
    LET ds == LeadingDigits(LStrip(text))
        rest == From(LStrip(text), Len(ds))
    IN IF ds # <<>> /\ rest # <<>> /\ Head(rest) \in {".", ")"} THEN LStrip(Tail(rest))
       ELSE text

\* re.sub(r"^\s*\d+\s+", "", text)
StripNumberSpace(text) ==
    LET ds == LeadingDigits(LStrip(text))
        rest == From(LStrip(text), Len(ds))
    IN IF ds # <<>> /\ rest # <<>> /\ IsSpace(Head(rest)) THEN LStrip(rest)
       ELSE text

\* " ".join(text.split())
RECURSIVE JoinWords(_)
JoinWords(text) ==
    LET t == LStrip(text)
        n == IF \E i \in 1..Len(t) : IsSpace(t[i])
             THEN (CHOOSE i \in 1..Len(t) : IsSpace(t[i]) /\ \A j \in 1..(i - 1) : ~IsSpace(t[j])) - 1
             ELSE Len(t)
    IN IF t = <<>> THEN <<>>
       ELSE IF LStrip(From(t, n)) = <<>> THEN Upto(t, n)
       ELSE Upto(t, n) \o <<" ">> \o JoinWords(From(t, n))

\* lines 34-39
normalize_question_text(text) ==
    IF text = NoneT THEN <<>> ELSE JoinWords(StripNumberSpace(StripNumberDot(text)))

RECURSIVE GroupKeys(_, _)
\* lines 510-518: the (section_title, chapter_title) groups of the blocks with a
\* chapter title that is neither NULL nor empty, by first block_id; blocks is
\* in ascending block_id, seen the groups already listed
GroupKeys(blocks, seen) ==
    IF blocks = <<>> THEN <<>>
    ELSE LET key == <<Head(blocks).section_title, Head(blocks).chapter_title>>
         IN IF key[2] = NoneT \/ key[2] = <<>> \/ key \in seen
            THEN GroupKeys(Tail(blocks), seen)
            ELSE <<key>> \o GroupKeys(Tail(blocks), seen \cup {key})

\* lines 521-543: the rows of the question blocks of one group, numbered from 1
\* in ascending block_id
GroupRows(blocks, key) ==
    LET qs == SelectSeq(blocks, LAMBDA b : /\ b.section_title = key[1]
                                          /\ b.chapter_title = key[2]
                                          /\ b.block_type = "question")
    IN [i \in 1..Len(qs) |->
           [block_id |-> qs[i].block_id, question_number |-> i,
            question_text |-> normalize_question_text(qs[i].raw_text),
            section_title |-> key[1], chapter_title |-> key[2]]]

\* lines 506-545: DELETE FROM d_questions, then the rows of every group
rebuild_d_questions_from_blocks(db) ==
    LET blocks == RowsById(db.doc_blocks, {db.doc_blocks[i].block_id : i \in 1..Len(db.doc_blocks)})
        keys == GroupKeys(blocks, {})
    IN [db EXCEPT !.d_questions = Concat([k \in 1..Len(keys) |-> GroupRows(blocks, keys[k])])]

\* the block of id block_id as dlbFix.import_docx writes it: block_order is the id
FixBlock(block_id, x) ==
    BlockRow(block_id, x[1], x[2], block_id, x[3], x[4], x[4], NoneT, NoneInt)

\* databases after the import loop of dlbFix.import_docx: up to MaxBlocks blocks
\* with ids 1, 2, ... in order, under no section or section "A", under no
\* chapter, a chapter of empty title or "Chapter 1"; texts and numbered questions
RebuildInputs ==
    {[EmptyStore EXCEPT !.doc_blocks = [i \in DOMAIN x |-> FixBlock(i, x[i])]] :
        x \in UNION {[1..k -> {NoneT, <<"A">>} \X {NoneT, <<>>, T_Chapter1}
                              \X {"question", "text"} \X {<<"1", ".", " ", "q", "?">>}] :
                       k \in 0..MaxBlocks}}

RebuildCall ==
    /\ pc = "call" /\ variant = "rebuild"
    /\ fn_res' = rebuild_d_questions_from_blocks(fn_arg)
    /\ pc' = "return"
    /\ UNCHANGED <<variant, palette, doc, m, store, store0, outcome, run, replay, first, limit,
                   fn_arg>>

\* the rebuild is run again on the database it left
RebuildAgain ==
    /\ pc = "return" /\ variant = "rebuild"
    /\ fn_arg' = fn_res
    /\ fn_res' = rebuild_d_questions_from_blocks(fn_res)
    /\ pc' = "again"
    /\ UNCHANGED <<variant, palette, doc, m, store, store0, outcome, run, replay, first, limit>>

InitRebuild ==
    /\ pc = "call" /\ variant = "rebuild"
    /\ fn_arg \in RebuildInputs
    /\ fn_res = <<>>
    /\ palette = {} /\ limit = 0 /\ doc = <<>>
    /\ store = EmptyStore /\ store0 = store /\ m = EmptyStore
    /\ outcome = "none" /\ run = 1 /\ replay = <<>> /\ first = <<>>

NextRebuild == RebuildCall \/ RebuildAgain

SpecRebuild == InitRebuild /\ [][NextRebuild]_vars

-----------------------------------------------------------------------------
(* Calls of allocate_block_id, the closure of dlbImportBRHCFinal.main *)

\* an earlier import of two chapters; image_ids names the blocks with an image
StoreTwoChapters(image_ids) ==
    [EmptyStore EXCEPT
       !.doc_blocks =
           <<BlockRow(1, NoneT, T_Chapter1, 1, "chapter", T_Chapter1, T_Chapter1, NoneT, NoneInt),
             BlockRow(2, NoneT, T_Chapter1, 2, "note", T_Note, T_Note, NoneT, NoneInt),
             BlockRow(3, NoneT, T_Chapter1, 3, "question", T_Question, T_Question, NoneT, NoneInt),
             BlockRow(4, NoneT, T_Chapter1, 5, "note", T_Stale, T_Stale, NoneT, NoneInt),
             BlockRow(5, NoneT, T_Chapter2, 1, "chapter", T_Chapter2, T_Chapter2, NoneT, NoneInt),
             BlockRow(6, NoneT, T_Chapter2, 2, "note", T_Note, T_Note, NoneT, NoneInt)>>,
       !.brhc_chapters = <<[section_id |-> NoneInt, chapter_title |-> T_Chapter1,
                            order_index |-> 1],
                           [section_id |-> NoneInt, chapter_title |-> T_Chapter2,
                            order_index |-> 2]>>,
       !.brhc_image_block_map = image_ids]

\* the arguments of a call: (block_type, raw_text, block_order_value)
AllocArgs == {"note", "question"} \X {T_Note, T_Stale} \X {1, 4}

\* the next call of allocate_block_id, at most MaxCalls of them
AllocateCall ==
    /\ pc = "call" /\ variant = "allocate"
    /\ Len(doc) < limit
    /\ \E a \in AllocArgs :
          /\ fn_arg' = a
          /\ m' = Final_allocate_block_id(m, a[1], a[2], a[3])
          /\ doc' = Append(doc, a[1])
    /\ fn_res' = m'.block_id
    /\ UNCHANGED <<pc, variant, palette, store, store0, outcome, run, replay, first, limit>>

\* main before its first allocation, in the intro or right after a chapter heading
InitAllocate ==
    /\ pc = "call" /\ variant = "allocate"
    /\ store \in {StoreTwoChapters(ids) : ids \in {{2, 4, 6}, {3, 4}, {2, 3, 4, 6}, {1, 5}}}
    /\ store0 = store
    /\ \E c \in {NoneT, T_Chapter1, T_Chapter2} :
          m = [Final_begin(store) EXCEPT !.current_chapter_title = c]
    /\ limit = MaxCalls
    /\ palette = {} /\ doc = <<>>
    /\ outcome = "none" /\ run = 1 /\ replay = <<>> /\ first = <<>>
    /\ fn_arg = <<>> /\ fn_res = <<>>

SpecAllocate == InitAllocate /\ [][AllocateCall]_vars

-----------------------------------------------------------------------------
(* Properties *)

\* the index of the last chapter block at or before block i, 0 when there is none
ChapterStart(blocks, i) ==
    IF \E k \in 1..i : blocks[k].block_type = "chapter"
    THEN CHOOSE k \in 1..i : /\ blocks[k].block_type = "chapter"
                             /\ \A j \in (k + 1)..i : blocks[j].block_type # "chapter"
    ELSE 0

\* the indexes of the blocks with the given id
BlocksWithId(blocks, id) == {i \in 1..Len(blocks) : blocks[i].block_id = id}

\* the characters of a run list, each with the style of its run
StyledChars(runs) ==
    Concat([i \in 1..Len(runs) |->
               [j \in 1..Len(runs[i].text) |->
                   [ch |-> runs[i].text[j], bold |-> runs[i].bold,
                    italic |-> runs[i].italic, is_blue |-> runs[i].is_blue]]])

\* C1: a strict import commits only if every identifier that owned an image
\* before the run is the id of exactly one block of the run; when such an
\* identifier is the id of no block at the end, the run is rolled back and the
\* store is the store before the run.
C1_ImageIdsReusedOnce ==
    pc = "done" =>
        /\ outcome = "commit" =>
              \A id \in store0.brhc_image_block_map :
                  Cardinality(BlocksWithId(store.doc_blocks, id)) = 1
        /\ (\E id \in store0.brhc_image_block_map : BlocksWithId(m.doc_blocks, id) = {})
              => outcome = "rollback" /\ store = store0

C1_Witness ==
    /\ pc = "done" /\ outcome = "commit"
    /\ store0.brhc_image_block_map # {}
    /\ \A id \in store0.brhc_image_block_map : BlocksWithId(store.doc_blocks, id) # {}

\* C2: in the strict import a fatal condition (unknown marker raised, an image
\* id left unused, a validator issue) leaves the store exactly as before the
\* run, and a commit happens only when none of the three conditions holds.
C2_AllOrNothing ==
    pc = "done" =>
        /\ (\/ m.raised # "None"
            \/ m.image_block_ids \ m.used_block_ids # {}
            \/ validate(m) # <<>>) => outcome = "rollback" /\ store = store0
        /\ outcome = "commit" =>
              /\ m.raised = "None"
              /\ m.image_block_ids \ m.used_block_ids = {}
              /\ validate(m) = <<>>
              /\ store.doc_blocks = m.doc_blocks
        /\ outcome \in {"commit", "rollback"}

C2_Witness ==
    /\ pc = "done" /\ m.raised = "validation_failed"
    /\ store0.doc_blocks # <<>> /\ m.doc_blocks # <<>>
    /\ store = store0

\* C3: a second strict import of the same document, from the store the first
\* run committed, gives every image-owning block the block id the first run
\* gave it.
C3_RerunKeepsIds ==
    (pc = "done" /\ run = 2 /\ outcome = "commit") =>
        \A i \in 1..Len(first) :
            first[i].block_id \in store0.brhc_image_block_map =>
                /\ i <= Len(store.doc_blocks)
                /\ store.doc_blocks[i].block_id = first[i].block_id

\* C4: block 42 owns an image and is the note T_Note of chapter T_Chapter1; the
\* re-import of a document with that note in that chapter gives id 42 to the
\* regenerated note block.
C4_NoteKeepsId ==
    (pc = "done" /\ store0 = StoreChapterNote(41, 42, T_Note, {42})
        /\ doc = <<"H1", "N">>) =>
        \E i \in 1..Len(m.doc_blocks) :
            /\ m.doc_blocks[i].block_type = "note"
            /\ m.doc_blocks[i].raw_text = T_Note
            /\ m.doc_blocks[i].chapter_title = T_Chapter1
            /\ m.doc_blocks[i].block_id = 42

\* C5: in both variants every question block has exactly one question row, and
\* its number is the count of question blocks from the last chapter block up to
\* it: the numbers of a chapter are 1..N in emission order.
C5_QuestionNumbers ==
    \A i \in 1..Len(m.doc_blocks) :
        m.doc_blocks[i].block_type = "question" =>
            /\ Cardinality({r \in 1..Len(m.d_questions) :
                               m.d_questions[r].block_id = m.doc_blocks[i].block_id}) = 1
            /\ \A r \in 1..Len(m.d_questions) :
                   m.d_questions[r].block_id = m.doc_blocks[i].block_id =>
                       m.d_questions[r].question_number =
                           Cardinality({j \in (ChapterStart(m.doc_blocks, i) + 1)..i :
                                           m.doc_blocks[j].block_type = "question"})

C5_Witness ==
    /\ variant = "docx"
    /\ \E r \in 1..Len(m.d_questions) : m.d_questions[r].question_number = 2
    /\ \E i \in 1..Len(m.doc_blocks) :
          m.doc_blocks[i].block_type = "question" /\ ChapterStart(m.doc_blocks, i) > 0

\* C6: a chapter block has block order 1, and inside a chapter every block
\* (image blocks included) has a larger block order than the block before it.
C6_BlockOrder ==
    \A i \in 1..Len(m.doc_blocks) :
        IF m.doc_blocks[i].block_type = "chapter" THEN m.doc_blocks[i].block_order = 1
        ELSE ChapterStart(m.doc_blocks, i) > 0 =>
                 m.doc_blocks[i].block_order > m.doc_blocks[i - 1].block_order

C6_Witness ==
    /\ variant = "docx"
    /\ \E i \in 1..Len(m.doc_blocks) :
          /\ m.doc_blocks[i].block_type = "image"
          /\ ChapterStart(m.doc_blocks, i) > 0
          /\ m.doc_blocks[i].block_order >= 3

\* C7: every block of either variant has a chapter title unless its type is
\* section, intro_heading or intro_paragraph.
C7_ChapterTitlePresent ==
    \A i \in 1..Len(m.doc_blocks) :
        m.doc_blocks[i].chapter_title = NoneT =>
            m.doc_blocks[i].block_type \in {"section", "intro_heading", "intro_paragraph"}

\* C8 as stated: the chapter "Chapter 1" with the blue run T_Question and the
\* plain run T_Answer has one question block (number 1) of block order 1
\* followed by one answer block of block order 2.
C8_OrdersOneTwo ==
    (pc = "done" /\ doc = <<"H1", "QA">>) =>
        \E i, j \in 1..Len(m.doc_blocks) :
            /\ i < j
            /\ m.doc_blocks[i].block_type = "question" /\ m.doc_blocks[i].raw_text = T_Question
            /\ m.doc_blocks[i].block_order = 1
            /\ m.doc_blocks[j].block_type = "answer" /\ m.doc_blocks[j].block_order = 2

\* C8: the chapter "Chapter 1" with the blue run T_Question and the plain run
\* T_Answer has exactly the chapter block (block order 1), one question block
\* (T_Question, number 1, block order 2) and one answer block (T_Answer, block
\* order 3), in that order.
C8_OrdersTwoThree ==
    (pc = "done" /\ doc = <<"H1", "QA">>) =>
        /\ Len(m.doc_blocks) = 3
        /\ m.doc_blocks[1].block_type = "chapter" /\ m.doc_blocks[1].block_order = 1
        /\ m.doc_blocks[2].block_type = "question" /\ m.doc_blocks[2].raw_text = T_Question
        /\ m.doc_blocks[2].block_order = 2
        /\ m.doc_blocks[3].block_type = "answer" /\ m.doc_blocks[3].raw_text = T_Answer
        /\ m.doc_blocks[3].block_order = 3
        /\ Len(m.d_questions) = 1
        /\ m.d_questions[1].block_id = m.doc_blocks[2].block_id
        /\ m.d_questions[1].question_number = 1
        /\ m.d_questions[1].question_text = T_Question
        /\ store.doc_blocks = m.doc_blocks

C8_Witness ==
    /\ pc = "done" /\ doc = <<"H1", "QA">> /\ variant = "docx"
    /\ Len(store.doc_blocks) = 3

\* C9: in the strict import a paragraph that begins with a bracketed token other
\* than [I], [S], [Ch], [N], [P], [R], [T] aborts the batch wherever it occurs:
\* the run ends rolled back with the store as before the run.
C9_UnknownMarkerAborts ==
    (pc = "done" /\ \E i \in 1..Len(doc) : doc[i] = "X") =>
        outcome = "rollback" /\ store = store0

\* C10: _split_runs_on_marker(runs, "[N]") of the one-run paragraph T_Example
\* gives two segments, the first with text "before text " and the second
\* beginning with "[N]"; whenever it gives two segments, their styled
\* characters concatenate to those of the input and the cut is at the first
\* occurrence of the marker; the input run list is never changed.
C10_SplitAtFirstMarker ==
    /\ [](pc = "return" =>
            /\ fn_arg = <<SimpleRun(T_Example, FALSE, FALSE, FALSE)>> =>
                  /\ Len(fn_res) = 2
                  /\ RunTexts(fn_res[1]) = SubSeq(T_Example, 1, 12)
                  /\ StartsWith(RunTexts(fn_res[2]), Marker(<<"N">>))
            /\ Len(fn_res) = 2 =>
                  /\ StyledChars(fn_res[1]) \o StyledChars(fn_res[2]) = StyledChars(fn_arg)
                  /\ StartsWith(RunTexts(fn_res[2]), Marker(<<"N">>))
                  /\ \A k \in 1..Len(RunTexts(fn_res[1])) :
                         SubSeq(RunTexts(fn_arg), k, k + 2) # Marker(<<"N">>))
    /\ [][fn_arg' = fn_arg]_vars

C10_Witness ==
    /\ pc = "return" /\ Len(fn_res) = 2
    /\ \E i \in 1..Len(fn_arg) :
          Contains(fn_arg[i].text, Marker(<<"N">>)) /\ ~StartsWith(fn_arg[i].text, Marker(<<"N">>))

\* the blocks inserted by the step, in the order of their insertion
NewBlocks == SubSeq(m'.doc_blocks, Len(m.doc_blocks) + 1, Len(m'.doc_blocks))

\* the paragraph named p is read by the step
Reads(p) == pc = "read" /\ Len(doc') = Len(doc) + 1 /\ doc'[Len(doc')] = p

\* C11: inside a chapter, the segment "The Creation" + tab + dot leader +
\* "Genesis 1:1" yields exactly one title_ref block; its raw text is
\* "The Creation" + newline + "Genesis 1:1" and its payload holds the two sides,
\* neither of them with a leader character.
C11_TitleReference ==
    [][(variant = "docx" /\ Reads("TR") /\ m.current_chapter_title # NoneT)
       => /\ Cardinality({i \in 1..Len(NewBlocks) : NewBlocks[i].block_type = "title_ref"}) = 1
          /\ \A i \in 1..Len(NewBlocks) :
                NewBlocks[i].block_type = "title_ref"
                => /\ NewBlocks[i].raw_text = T_Creation \o NL \o T_Genesis
                   /\ NewBlocks[i].table_json = JsonLeftRight(T_Creation, T_Genesis)]_vars

\* _runs_to_markup(fn_arg) has returned fn_res
MarkupReturned == pc = "return" /\ variant = "markup"

\* all runs of the list have the same (bold, italic) style
UniformStyle(runs) ==
    \A i \in 1..Len(runs) : runs[i].bold = runs[1].bold /\ runs[i].italic = runs[1].italic

\* the text inside one pair of each tag the style asks for
Wrapped(text, bold, italic) ==
    (IF bold THEN <<"<", "s", "t", "r", "o", "n", "g", ">">> ELSE <<>>)
    \o (IF italic THEN <<"<", "e", "m", ">">> ELSE <<>>)
    \o text
    \o (IF italic THEN <<"<", "/", "e", "m", ">">> ELSE <<>>)
    \o (IF bold THEN <<"<", "/", "s", "t", "r", "o", "n", "g", ">">> ELSE <<>>)

\* C12 (as stated): for a run list whose runs all have the same (bold, italic)
\* style, bold and italic ones included, _runs_to_markup returns has_markup =
\* False and the plain concatenation of the run texts.
C12_UniformNoMarkup ==
    (MarkupReturned /\ UniformStyle(fn_arg))
    => fn_res = [text |-> RunTexts(fn_arg), has_markup |-> FALSE]

\* C12 (amended): for a run list whose runs all have the same style,
\* _runs_to_markup returns has_markup = False and the plain concatenation when
\* the style is neither bold nor italic or no run has text; otherwise it returns
\* has_markup = True and the concatenation inside one pair of each tag.
C12_PlainNoMarkup ==
    (MarkupReturned /\ UniformStyle(fn_arg))
    => IF RunTexts(fn_arg) = <<>> \/ (~fn_arg[1].bold /\ ~fn_arg[1].italic)
       THEN fn_res = [text |-> RunTexts(fn_arg), has_markup |-> FALSE]
       ELSE fn_res = [text |-> Wrapped(RunTexts(fn_arg), fn_arg[1].bold, fn_arg[1].italic),
                      has_markup |-> TRUE]

\* two or more runs with text, all of them italic and not bold, were serialized
C12_Witness ==
    /\ MarkupReturned /\ UniformStyle(fn_arg)
    /\ Len(fn_arg) >= 2
    /\ \A i \in 1..Len(fn_arg) : fn_arg[i].text # <<>> /\ fn_arg[i].italic /\ ~fn_arg[i].bold
    /\ fn_res.has_markup

\* runs with text and without italics, bold and non-bold in turn
Alternating(runs) ==
    /\ runs # <<>>
    /\ \A i \in 1..Len(runs) : runs[i].text # <<>> /\ ~runs[i].italic
    /\ \A i \in 1..(Len(runs) - 1) : runs[i].bold # runs[i + 1].bold

\* the number of opening tags in a serialized text
OpeningTags(text) ==
    Cardinality(Occurs(text, <<"<", "s", "t", "r", "o", "n", "g", ">">>))
    + Cardinality(Occurs(text, <<"<", "e", "m", ">">>))

\* the number of adjacent runs of different style
Transitions(runs) ==
    Cardinality({i \in 1..(Len(runs) - 1) :
                    runs[i].bold # runs[i + 1].bold \/ runs[i].italic # runs[i + 1].italic})

\* C13 (as stated): for non-empty runs that are bold and non-bold in turn,
\* starting with either, the number of opening tags in the output of
\* _runs_to_markup equals the number of style transitions between adjacent runs.
C13_TagsEqualTransitions ==
    (MarkupReturned /\ Alternating(fn_arg))
    => OpeningTags(fn_res.text) = Transitions(fn_arg)

\* C13 (amended): for non-empty runs that are bold and non-bold in turn, the
\* number of opening tags in the output of _runs_to_markup equals the number of
\* bold runs: one tag for a bold first run and one for each transition from
\* non-bold to bold.
C13_TagsEqualBoldRuns ==
    (MarkupReturned /\ Alternating(fn_arg))
    => OpeningTags(fn_res.text) = Cardinality({i \in 1..Len(fn_arg) : fn_arg[i].bold})

\* a non-bold, a bold and a non-bold run were serialized with one opening tag
C13_Witness ==
    /\ MarkupReturned /\ Alternating(fn_arg)
    /\ Len(fn_arg) = 3 /\ ~fn_arg[1].bold
    /\ Transitions(fn_arg) = 2
    /\ OpeningTags(fn_res.text) = 1

\* the highest block id stored before the run, 0 when there is none
StoredTop ==
    IF store0.doc_blocks = <<>> THEN 0
    ELSE MaxOf({store0.doc_blocks[i].block_id : i \in 1..Len(store0.doc_blocks)})

\* the ids of the run that are not ids of image-owning blocks, in the order handed out
FreshIds ==
    LET fresh == SelectSeq(m.doc_blocks, LAMBDA b : b.block_id \notin m.image_block_ids)
    IN [k \in 1..Len(fresh) |-> fresh[k].block_id]

\* C14: within one strict import run the block ids handed out by
\* allocate_block_id are pairwise distinct; an id that owned an image is handed
\* out at most once, and the fresh ids are, in the order handed out, one, two,
\* ... past the highest id stored before the run.
C14_IdsDistinct ==
    (variant = "final" /\ run = 1)
    => /\ \A i, j \in 1..Len(m.doc_blocks) :
             m.doc_blocks[i].block_id = m.doc_blocks[j].block_id => i = j
       /\ \A id \in m.image_block_ids : Cardinality(BlocksWithId(m.doc_blocks, id)) <= 1
       /\ \A k \in 1..Len(FreshIds) : FreshIds[k] = StoredTop + k

\* a run that reused an image-owning id and handed out two fresh ids
C14_Witness ==
    /\ variant = "final" /\ run = 1 /\ outcome = "commit"
    /\ \E id \in m.image_block_ids : BlocksWithId(m.doc_blocks, id) # {}
    /\ Len(FreshIds) >= 2

\* the stored blocks that own an image and whose id no call has handed out yet
UnusedImageBlocks ==
    {b \in {store0.doc_blocks[i] : i \in 1..Len(store0.doc_blocks)} :
        b.block_id \in store0.brhc_image_block_map /\ b.block_id \notin m.used_block_ids}

\* the blocks of the pool at the least distance from the order v
Nearest(pool, v) ==
    {b \in pool : \A c \in pool : Abs(b.block_order - v) <= Abs(c.block_order - v)}

\* the result of a call with arguments a, by the three rules in their priority
ByRules(a) ==
    LET exact == {b \in UnusedImageBlocks :
                     KeyOf(b) = <<a[1], a[2], m.current_section_title, m.current_chapter_title>>}
        chapter == {b \in UnusedImageBlocks : b.chapter_title = m.current_chapter_title}
        same_type == {b \in chapter : b.block_type = a[1]}
    IN IF exact # {}
       THEN /\ fn_res' \in {b.block_id : b \in exact}
            /\ m'.anomalies = m.anomalies
       ELSE IF chapter # {}
       THEN /\ fn_res' \in {b.block_id :
                               b \in Nearest(IF same_type # {} THEN same_type ELSE chapter, a[3])}
            /\ Len(m'.anomalies) = Len(m.anomalies) + 1
            /\ m'.anomalies[Len(m'.anomalies)].kind = "reassigned"
            /\ m'.anomalies[Len(m'.anomalies)].block_id = fn_res'
       ELSE /\ fn_res' = m.next_block_id
            /\ fn_res' \notin {store0.doc_blocks[i].block_id : i \in 1..Len(store0.doc_blocks)}
            /\ m'.anomalies = m.anomalies

\* C15: allocate_block_id applies three rules in strict priority: an unused
\* image-owning block with exactly the requested (type, text, section, chapter)
\* key is reused without an anomaly; otherwise the unused image-owning block of
\* the current chapter nearest in order is reused, among those of the requested
\* type when there is one, with exactly one reassignment anomaly; only otherwise
\* a fresh id is handed out. Rule 2 never reuses a block of another chapter.
C15_RulePriority ==
    [][(variant = "allocate" /\ Len(doc') = Len(doc) + 1) => ByRules(fn_arg')]_vars

\* three calls: one reused an exact match, one the nearest block of the chapter
\* with a reassignment anomaly, one handed out a fresh id
C15_Witness ==
    /\ variant = "allocate" /\ Len(doc) = 3
    /\ Cardinality(m.used_block_ids) = 2
    /\ Len(m.anomalies) = 1
    /\ m.next_block_id = StoredTop + 2
    /\ fn_res = StoredTop + 1

\* the paragraphs of Init that do not start with [S], [Ch], [N], [R] or [T] and
\* are no chapter heading (the others are "H1", "S" and "N")
InnerParas == {"I", "P", "QA", "B", "PIC"}

\* the text of the paragraph named p as the open aggregate or note takes it:
\* the live import removes the [Pic: ...] tags first
SegmentText(p) ==
    IF variant = "docx" /\ p = "PIC" THEN <<>> ELSE Para(p).text

\* the text of the block of the open aggregate
AggregateText ==
    IF variant = "docx" THEN Strip(Join(NL, m.aggregated_lines)) ELSE Join(NL, m.aggregated_lines)

\* the step flushes the open aggregate first: one block of its type, before any other
AggregateFlushedFirst ==
    /\ NewBlocks # <<>>
    /\ NewBlocks[1].block_type = m.aggregated_type
    /\ NewBlocks[1].raw_text = AggregateText
    /\ \A i \in 2..Len(NewBlocks) : NewBlocks[i].block_type # m.aggregated_type

NoteTakes(p) == variant = "docx" /\ m.note_active /\ Reads(p)

\* the step flushes the open note first: one note block, before any other
NoteFlushedFirst ==
    /\ NewBlocks # <<>>
    /\ NewBlocks[1].block_type = "note"
    /\ NewBlocks[1].raw_text = Strip(Join(NL, m.note_lines))
    /\ \A i \in 2..Len(NewBlocks) : NewBlocks[i].block_type # "note"

\* the boundary paragraph named p is dispatched: its content is in the block
\* after the note block or in the buffer it opens, and not in the flushed note
NoteBoundaryDispatched(p) ==
    CASE p = "H1" -> /\ Len(NewBlocks) = 2
                     /\ NewBlocks[2].block_type = "chapter"
                     /\ NewBlocks[2].raw_text = T_Chapter1
                     /\ ~m'.note_active
      [] p = "S" -> /\ Len(NewBlocks) = 2
                    /\ NewBlocks[2].block_type = "section"
                    /\ NewBlocks[2].raw_text = <<"A">>
                    /\ ~m'.note_active
      [] p = "N" -> /\ Len(NewBlocks) = 1
                    /\ m'.note_active /\ m'.note_lines = <<T_Note>>
      [] p = "P" -> /\ Len(NewBlocks) = 1
                    /\ ~m'.note_active
                    /\ m'.aggregated_type = "poetry" /\ m'.aggregated_lines = <<<<"v">>>>
      [] p = "QA" -> /\ Len(NewBlocks) = 2
                     /\ NewBlocks[2].block_type = "question"
                     /\ NewBlocks[2].raw_text = T_Question
                     /\ ~m'.note_active
                     /\ m'.current_mode = "answer"
                     /\ RunTexts(m'.current_buffer) = T_Answer

\* C17: in the live import, with a note open, a segment that starts with none
\* of the markers the note branch tests ([S], [Ch], [N], [P], [R], [T]), is no
\* chapter heading and has no blue run is appended to the note, which stays
\* open and emits no note block; any other segment first emits exactly one
\* note block, of the lines taken so far, and is then dispatched in the same
\* step: its content is in the block or buffer of its own rule, not in the note.
C17_NoteSwallows ==
    [][/\ \A p \in {"I", "B", "PIC"} :
             NoteTakes(p)
             => /\ m'.note_active
                /\ m'.note_lines = Append(m.note_lines, SegmentText(p))
                /\ \A i \in 1..Len(NewBlocks) : NewBlocks[i].block_type # "note"
       /\ \A p \in {"H1", "S", "N", "P", "QA"} :
             NoteTakes(p) => NoteFlushedFirst /\ NoteBoundaryDispatched(p)]_vars

\* a note took an [I] segment and was emitted, with both lines, at a segment
\* with a blue run, whose question was emitted and whose answer is buffered
C17_Witness ==
    /\ variant = "docx" /\ doc = <<"H1", "N", "I", "QA">> /\ pc = "read"
    /\ Len(m.doc_blocks) = 3
    /\ m.doc_blocks[2].block_type = "note"
    /\ m.doc_blocks[2].raw_text = T_Note \o NL \o Para("I").text
    /\ m.doc_blocks[3].block_type = "question"
    /\ RunTexts(m.current_buffer) = T_Answer

\* the type of the block of the open buffer: an aggregate, a note (live
\* import) or a question/answer buffer with content; "None" when none is open
OpenBuffer ==
    IF m.aggregated_type # "None" THEN m.aggregated_type
    ELSE IF variant = "docx" /\ m.note_active THEN "note"
    ELSE IF m.current_mode # "None" /\ m.current_buffer # <<>> THEN m.current_mode
    ELSE "None"

\* the last row of a table
Last(rows) == rows[Len(rows)]

\* the step numbers the question block b by the counter and chapter in force before it
NumberedBefore(b) ==
    /\ Len(m'.d_questions) = Len(m.d_questions) + 1
    /\ Last(m'.d_questions).block_id = b.block_id
    /\ Last(m'.d_questions).question_number = m.question_counter + 1
    /\ Last(m'.d_questions).chapter_title = m.current_chapter_title
    /\ Last(m'.d_questions).section_title = m.current_section_title
    /\ Len(m'.questions) = Len(m.questions) + 1
    /\ Last(m'.questions).question_number = m.question_counter + 1
    /\ Last(m'.questions).chapter_number = m.current_chapter_num
    /\ Last(m'.questions).chapter_title = m.current_chapter_title
    /\ Last(m'.questions).section_title = m.current_section_title

\* C18: in both variants, when a chapter heading or a section marker arrives
\* while a note, an aggregate or a question/answer buffer is open, the step
\* emits the buffered block and then the chapter or section block; the buffered
\* block has the section title, the chapter title and the next block order of
\* before the marker, and a question the next question number of before it.
C18_FlushBeforeHeading ==
    [][(pc = "read" /\ OpenBuffer # "None" /\ (Reads("H1") \/ Reads("S")))
       => /\ Len(NewBlocks) = 2
          /\ NewBlocks[1].block_type = OpenBuffer
          /\ NewBlocks[1].section_title = m.current_section_title
          /\ NewBlocks[1].chapter_title = m.current_chapter_title
          /\ NewBlocks[1].block_order = m.block_order + 1
          /\ NewBlocks[2].block_type = IF Reads("H1") THEN "chapter" ELSE "section"
          /\ IF OpenBuffer = "question"
             THEN NumberedBefore(NewBlocks[1])
             ELSE m'.d_questions = m.d_questions /\ m'.questions = m.questions]_vars

\* a second chapter heading arrived with the second question of the first
\* chapter buffered: the question block has order 4 and number 2 in "Chapter 1"
C18_Witness ==
    /\ doc = <<"H1", "QA", "Q", "H1">> /\ pc = "read"
    /\ Len(m.doc_blocks) = 5
    /\ m.doc_blocks[4].block_type = "question"
    /\ m.doc_blocks[4].block_order = 4
    /\ m.doc_blocks[5].block_type = "chapter"
    /\ m.doc_blocks[5].block_order = 1
    /\ Len(m.d_questions) = 2
    /\ Last(m.d_questions).question_number = 2
    /\ m.question_counter = 0

\* C19: in the live import every segment that starts with [Ch], and every
\* bare "Chapter <number>" heading in any letter case, is handled as a chapter
\* heading: the step emits exactly one chapter block, of order 1, adds one
\* chapter record, leaves the question counter at 0 and ends intro mode.
C19_ChapterHeadings ==
    [][(variant = "docx" /\ \E p \in {"H1", "CHI", "ch2"} : Reads(p))
       => /\ Cardinality({i \in 1..Len(NewBlocks) : NewBlocks[i].block_type = "chapter"}) = 1
          /\ NewBlocks[Len(NewBlocks)].block_type = "chapter"
          /\ NewBlocks[Len(NewBlocks)].block_order = 1
          /\ Len(m'.brhc_chapters) = Len(m.brhc_chapters) + 1
          /\ m'.block_order = 1
          /\ m'.question_counter = 0
          /\ ~m'.intro_active]_vars

\* the texts of the blue runs and of the other runs that reach the
\* question/answer buffer from the paragraphs of InitFlush
BlueTexts == {T_Question, <<"q", "?">>}
PlainTexts == {T_Answer}

\* the text is a concatenation of texts of the set
RECURSIVE MadeOf(_, _)
MadeOf(text, parts) ==
    \/ text = <<>>
    \/ \E t \in parts : StartsWith(text, t) /\ MadeOf(From(text, Len(t)), parts)

\* the texts of the mode: those of blue runs for questions, of other runs for answers
TextsOf(mode) == IF mode = "question" THEN BlueTexts ELSE PlainTexts

\* the text of entry i of the question/answer buffer
BufferText(i) ==
    IF variant = "docx" THEN m.current_buffer[i].text ELSE m.current_buffer[i]

\* C20: in both variants, at every point of a run, every entry of the
\* question/answer buffer other than a newline separator is a run of the
\* current mode (blue for question, not blue for answer); every question block
\* emitted is made of blue runs and newlines only and every answer block of
\* other runs and newlines only, also for a segment with runs of both colors.
C20_BufferOneColor ==
    /\ \A i \in 1..Len(m.current_buffer) :
          /\ BufferText(i) \in {NL} \cup TextsOf(m.current_mode)
          /\ variant = "docx"
             => \/ m.current_buffer[i] = SimpleRun(NL, FALSE, FALSE, FALSE)
                \/ m.current_buffer[i].is_blue = (m.current_mode = "question")
    /\ \A i \in 1..Len(m.doc_blocks) :
          m.doc_blocks[i].block_type \in {"question", "answer"}
          => MadeOf(m.doc_blocks[i].raw_text, {NL} \cup TextsOf(m.doc_blocks[i].block_type))

\* a blue segment and a segment of both colors: the question block holds the
\* two blue runs, the buffer the run that is not blue
C20_Witness ==
    /\ doc = <<"H1", "Q", "QA">> /\ pc = "read"
    /\ Len(m.doc_blocks) = 2
    /\ m.doc_blocks[2].block_type = "question"
    /\ m.doc_blocks[2].raw_text = <<"q", "?">> \o NL \o T_Question
    /\ m.current_mode = "answer"
    /\ Len(m.current_buffer) = 1 /\ BufferText(1) = T_Answer

\* C21: in the live import, the text of an extracted [Pic: name] tag is in
\* neither the raw text nor the normalized text of any question, answer, note,
\* poetry, responsive, table or title_ref block.
C21_TagTextRemoved ==
    variant = "docx"
    => \A i \in 1..Len(m.doc_blocks) :
          m.doc_blocks[i].block_type \in {"question", "answer", "note", "poetry", "responsive",
                                          "table", "title_ref"}
          => /\ ~Contains(m.doc_blocks[i].raw_text, T_Pic)
             /\ ~Contains(m.doc_blocks[i].normalized_text, T_Pic)

\* the anomalies of the given kind
AnomaliesOf(s, kind) == {i \in 1..Len(s.anomalies) : s.anomalies[i].kind = kind}

\* C22: in the live import a segment with one [Pic: a] tag emits exactly one
\* image block when it is read, with the tag as raw and normalized text, as the
\* first block of the step and under the next block order, so before the block
\* of any buffer the step flushes; an unknown file name changes nothing but the
\* list of missing names, which becomes one anomaly at the end of input.
C22_ImageAtOnce ==
    [][/\ (variant = "docx" /\ (Reads("PIC") \/ Reads("PT")))
          => /\ NewBlocks # <<>>
             /\ NewBlocks[1].block_type = "image"
             /\ NewBlocks[1].raw_text = T_Pic /\ NewBlocks[1].normalized_text = T_Pic
             /\ NewBlocks[1].block_order = m.block_order + 1
             /\ \A i \in 2..Len(NewBlocks) :
                   /\ NewBlocks[i].block_type # "image"
                   /\ NewBlocks[i].block_order > NewBlocks[1].block_order
             /\ m'.missing_pic_filenames =
                    IF <<"a">> \in store.brhc_images THEN m.missing_pic_filenames
                    ELSE Append(m.missing_pic_filenames, <<"a">>)
             /\ m'.anomalies = m.anomalies
       /\ (variant = "docx" /\ pc = "read" /\ pc' = "done")
          => Cardinality(AnomaliesOf(m', "missing_pic"))
                = IF m.missing_pic_filenames = <<>> THEN 0 ELSE 1]_vars

\* a question was buffered when a segment with a tag of an unknown file arrived:
\* the image block has order 2, the question block order 3
C22_Witness ==
    /\ variant = "docx" /\ doc = <<"H1", "Q", "PT">> /\ pc = "read"
    /\ store.brhc_images = {}
    /\ Len(m.doc_blocks) = 3
    /\ m.doc_blocks[2].block_type = "image" /\ m.doc_blocks[2].block_order = 2
    /\ m.doc_blocks[3].block_type = "question" /\ m.doc_blocks[3].block_order = 3
    /\ m.missing_pic_filenames = <<<<"a">>>>

\* the 0-based offset at which the trimmed text starts
TrimStart(text) == Len(text) - Len(LStrip(text))

\* C23: when [N] occurs in the concatenated run text at a position other than
\* the start of the trimmed text, _split_runs_on_marker(runs, "[N]") gives a
\* before and an after sub-sequence, the after one beginning with the marker;
\* also for a paragraph that starts with [N] and holds a second [N] later.
C23_SplitAtLaterMarker ==
    (pc = "return" /\ variant = "split"
        /\ \E i \in Occurs(RunTexts(fn_arg), Marker(<<"N">>)) : i # TrimStart(RunTexts(fn_arg)))
    => /\ Len(fn_res) = 2
       /\ RunTexts(fn_res[1]) \o RunTexts(fn_res[2]) = RunTexts(fn_arg)
       /\ StartsWith(RunTexts(fn_res[2]), Marker(<<"N">>))

\* the types of the blocks of a section marker or a chapter heading
HeadingTypes == {"section", "chapter"}

\* C24: in both variants an intro_heading or intro_paragraph block comes
\* before every section and chapter block of the run and has neither a section
\* title nor a chapter title; intro mode is active exactly while no section or
\* chapter block has been emitted, so no intro block follows the first marker.
C24_IntroOnlyBeforeMarkers ==
    /\ \A i \in 1..Len(m.doc_blocks) :
          m.doc_blocks[i].block_type \in {"intro_heading", "intro_paragraph"}
          => /\ m.doc_blocks[i].section_title = NoneT
             /\ m.doc_blocks[i].chapter_title = NoneT
             /\ \A j \in 1..(i - 1) : m.doc_blocks[j].block_type \notin HeadingTypes
    /\ m.intro_active = (\A i \in 1..Len(m.doc_blocks) :
                            m.doc_blocks[i].block_type \notin HeadingTypes)

\* an [I] segment before and one after a section marker: only the first has a block
C24_Witness ==
    /\ doc = <<"I", "S", "I">> /\ pc = "read"
    /\ Len(m.doc_blocks) = 2
    /\ m.doc_blocks[1].block_type = "intro_heading"
    /\ m.doc_blocks[2].block_type = "section"
    /\ ~m.intro_active

\* a paragraph of the palette with a run in the distinguished colour
HasBlueRun(p) == \E i \in 1..Len(Para(p).runs) : Para(p).runs[i].color_blue

\* a question or answer block has a chapter block before it
NoQuestionBeforeChapter ==
    \A i \in 1..Len(m.doc_blocks) :
       m.doc_blocks[i].block_type \in {"question", "answer"}
       => \E j \in 1..(i - 1) : m.doc_blocks[j].block_type = "chapter"

\* C25: once intro mode has ended and while no chapter is established, reading
\* a paragraph that is neither a chapter heading nor a section marker emits no
\* block and opens no buffer; it appends one orphan anomaly when the paragraph
\* has a run in the distinguished colour and leaves the anomalies alone
\* otherwise.  Hence every question or answer block follows a chapter block.
C25_DiscardedBeforeChapter ==
    /\ []NoQuestionBeforeChapter
    /\ [][\A p \in {"I", "Q", "QA", "N", "P"} :
             (Reads(p) /\ ~m.intro_active /\ m.current_chapter_title = NoneT)
             => /\ NewBlocks = <<>>
                /\ m'.aggregated_type = "None" /\ m'.current_buffer = <<>>
                /\ (variant = "docx" => ~m'.note_active)
                /\ Len(m'.anomalies) = Len(m.anomalies) + (IF HasBlueRun(p) THEN 1 ELSE 0)
                /\ AnomaliesOf(m', "orphan_blue")
                      = AnomaliesOf(m, "orphan_blue")
                        \cup (IF HasBlueRun(p) THEN {Len(m'.anomalies)} ELSE {})]_vars

\* C25 happens: after a section marker a question with its answer is discarded
\* with one orphan anomaly, and a note after it with none
C25_Witness ==
    /\ variant = "docx" /\ doc = <<"S", "QA", "N">> /\ pc = "read"
    /\ Len(m.doc_blocks) = 1
    /\ Len(m.anomalies) = 1 /\ m.anomalies[1].kind = "orphan_blue"

\* the step is the end of input: the flushes after the loop
EndOfInput == pc = "read" /\ pc' = "done" /\ doc' = doc

\* the type and text of the block of each buffer that is open and not empty,
\* in the order of the flushes (aggregate, question/answer, note)
PendingBlocks ==
    (IF m.aggregated_type # "None" /\ m.aggregated_lines # <<>>
     THEN <<[block_type |-> m.aggregated_type, raw_text |-> AggregateText]>> ELSE <<>>)
    \o (IF m.current_mode # "None" /\ m.current_buffer # <<>>
        THEN <<[block_type |-> m.current_mode,
                raw_text |-> IF variant = "docx" THEN Strip(RunTexts(m.current_buffer))
                             ELSE Concat(m.current_buffer)]>>
        ELSE <<>>)
    \o (IF variant = "docx" /\ m.note_active /\ m.note_lines # <<>>
        THEN <<[block_type |-> "note", raw_text |-> Strip(Join(NL, m.note_lines))]>>
        ELSE <<>>)

\* no buffer is open
BuffersEmpty ==
    /\ m.aggregated_type = "None" /\ m.aggregated_lines = <<>>
    /\ m.current_mode = "None" /\ m.current_buffer = <<>>
    /\ variant = "docx" => ~m.note_active /\ m.note_lines = <<>>

\* C26: in both variants every run ends; the end of input emits exactly one
\* block for each buffer that is open and not empty, with the buffer's type and
\* text, and nothing else; when the run has ended no buffer is open.
C26_EndFlush ==
    /\ <>(pc = "done")
    /\ [](pc = "done" => BuffersEmpty)
    /\ [][EndOfInput
          => /\ Len(NewBlocks) = Len(PendingBlocks)
             /\ \A i \in 1..Len(NewBlocks) :
                   /\ NewBlocks[i].block_type = PendingBlocks[i].block_type
                   /\ NewBlocks[i].raw_text = PendingBlocks[i].raw_text]_vars

\* C26 happens: the input ended on an open note, which became the third block
C26_Witness ==
    /\ variant = "docx" /\ doc = <<"H1", "QA", "N">> /\ pc = "done"
    /\ Len(m.doc_blocks) = 4
    /\ m.doc_blocks[4].block_type = "note" /\ m.doc_blocks[4].raw_text = T_Note
    /\ BuffersEmpty

\* the positions of the question blocks
QuestionBlocks == {i \in 1..Len(m.doc_blocks) : m.doc_blocks[i].block_type = "question"}

\* the number of question blocks from the last chapter block before block i to block i
NumberInChapter(i) ==
    Cardinality({j \in QuestionBlocks :
                    /\ j <= i
                    /\ \A k \in j..i : m.doc_blocks[k].block_type # "chapter"})

\* C27: in both variants, at every point of a run, d_questions and questions
\* have one row per question block and no other row: the k-th row of each
\* belongs to the k-th question block, with its section, chapter, text and its
\* number among the questions of the chapter; the d_questions row has the
\* block's id, and no two rows of d_questions have the same id.
C27_QuestionRowsMirrorBlocks ==
    /\ Len(m.d_questions) = Cardinality(QuestionBlocks)
    /\ Len(m.questions) = Cardinality(QuestionBlocks)
    /\ \A a, b \in 1..Len(m.d_questions) :
          m.d_questions[a].block_id = m.d_questions[b].block_id => a = b
    /\ \A i \in QuestionBlocks :
          LET k == Cardinality({j \in QuestionBlocks : j <= i})
              b == m.doc_blocks[i]
          IN /\ m.d_questions[k].block_id = b.block_id
             /\ m.d_questions[k].chapter_title = b.chapter_title
             /\ m.d_questions[k].section_title = b.section_title
             /\ m.d_questions[k].question_text = b.raw_text
             /\ m.d_questions[k].question_number = NumberInChapter(i)
             /\ m.questions[k].chapter_title = b.chapter_title
             /\ m.questions[k].section_title = b.section_title
             /\ m.questions[k].question_text = b.raw_text
             /\ m.questions[k].question_number = NumberInChapter(i)
             /\ m.questions[k].content_type = "question"

\* C27 happens: two questions with an answer between them, the second one
\* flushed by a note, have rows 1 and 2 in both tables
C27_Witness ==
    /\ variant = "final" /\ doc = <<"H1", "QA", "Q", "N">> /\ pc = "read"
    /\ Cardinality(QuestionBlocks) = 2
    /\ Len(m.questions) = 2 /\ m.questions[2].question_number = 2
    /\ Len(m.d_questions) = 2 /\ m.d_questions[2].question_number = 2

\* the positions in the document of the paragraphs of the given names
ParasRead(names) == {i \in 1..Len(doc) : doc[i] \in names}

\* C28: in both variants, at every point of a run, brhc_sections has one row
\* per section marker read and brhc_chapters one row per chapter heading read;
\* the k-th row of each has order_index k, whatever the number in the heading;
\* a chapter row has the heading's text as title and the id of the row of the
\* last section marker read before the heading, or none without one.
C28_SectionAndChapterRecords ==
    /\ Len(m.brhc_sections) = Cardinality(ParasRead({"S"}))
    /\ \A k \in 1..Len(m.brhc_sections) : m.brhc_sections[k].order_index = k
    /\ Len(m.brhc_chapters) = Cardinality(ParasRead({"H1", "ch2"}))
    /\ \A i \in ParasRead({"H1", "ch2"}) :
          LET k == Cardinality({j \in ParasRead({"H1", "ch2"}) : j <= i})
              n == Cardinality({j \in ParasRead({"S"}) : j < i})
          IN /\ m.brhc_chapters[k].order_index = k
             /\ m.brhc_chapters[k].chapter_title = Para(doc[i]).text
             /\ m.brhc_chapters[k].section_id
                   = IF n = 0 THEN NoneInt ELSE m.brhc_sections[n].section_id

\* C28 happens: "chapter 2" before any section is chapter 1 of no section,
\* "Chapter 1" after the second section marker is chapter 2 of section 2
C28_Witness ==
    /\ variant = "final" /\ doc = <<"ch2", "S", "S", "H1">> /\ pc = "read"
    /\ Len(m.brhc_sections) = 2 /\ Len(m.brhc_chapters) = 2
    /\ m.brhc_chapters[1].order_index = 1 /\ m.brhc_chapters[1].section_id = NoneInt
    /\ m.brhc_chapters[2].order_index = 2
    /\ m.brhc_chapters[2].section_id = m.brhc_sections[2].section_id

\* the line has a pipe or a tab
Delimited(line) == Contains(line, <<"|">>) \/ Contains(line, <<"\t">>)

\* the cells of the line: those between its pipes if it has one, else those
\* between its tabs (one cell for a line with neither)
CellCount(line) ==
    IF Contains(line, <<"|">>) THEN Cardinality(Occurs(line, <<"|">>)) + 1
    ELSE Cardinality(Occurs(line, <<"\t">>)) + 1

\* all the lines have the same number of cells
EqualRows(lines) == \A i, j \in 1..Len(lines) : CellCount(lines[i]) = CellCount(lines[j])

\* the text is a structured table of the lines: a <table> element with one
\* <tr> per line and one <td> per cell
StructuredTable(text, lines) ==
    /\ StartsWith(text, <<"<", "t", "a", "b", "l", "e", ">">>)
    /\ Cardinality(Occurs(text, <<"<", "t", "r", ">">>)) = Len(lines)
    /\ Cardinality(Occurs(text, <<"<", "t", "d", ">">>)) = Len(lines) * CellCount(lines[1])

\* the text is one preformatted block with the lines joined by newlines, HTML-escaped
Preformatted(text, lines) ==
    text = <<"<", "p", "r", "e", ">">> \o escape_html(Join(NL, lines))
           \o <<"<", "/", "p", "r", "e", ">">>

\* C29 (as stated): _render_table returns a structured table when all the
\* lines have the same number of cells, a line without a delimiter being a row
\* of one cell, and one preformatted block of the joined text otherwise.
C29_TableIffEqualRows ==
    pc = "return"
    => IF EqualRows(fn_arg) THEN StructuredTable(fn_res, fn_arg)
       ELSE Preformatted(fn_res, fn_arg)

\* C29 (amended): _render_table returns a structured table when every line
\* has a pipe or a tab and all the lines have the same number of cells (those
\* between the pipes of a line with a pipe, between the tabs of any other),
\* and one preformatted block of the escaped joined text otherwise; it returns
\* one of the two for every non-empty list of lines.
C29_TableIffDelimitedEqualRows ==
    pc = "return"
    => IF (\A i \in 1..Len(fn_arg) : Delimited(fn_arg[i])) /\ EqualRows(fn_arg)
       THEN StructuredTable(fn_res, fn_arg)
       ELSE Preformatted(fn_res, fn_arg)

\* C29 happens: two lines without a delimiter have one cell each and give a
\* preformatted block
C29_Witness ==
    /\ pc = "return"
    /\ fn_arg = <<<<"a">>, <<"a">>>>
    /\ EqualRows(fn_arg) /\ Preformatted(fn_res, fn_arg)

\* the rows of d_questions of chapter c in the database
RowsOfChapter(db, c) == {i \in 1..Len(db.d_questions) : db.d_questions[i].chapter_title = c}

\* the rows of chapter c are numbered 1..N, each number once
NumberedOneToN(db, c) ==
    \A n \in 1..Cardinality(RowsOfChapter(db, c)) :
       Cardinality({i \in RowsOfChapter(db, c) : db.d_questions[i].question_number = n}) = 1

\* C30: _validate reports "Question numbering not sequential per chapter."
\* exactly when the rows of some chapter are not numbered 1..N, each number
\* once, N being the number of rows of the chapter.
C30_NumberingIssueIffNotOneToN ==
    pc = "return"
    => ((\E i \in 1..Len(fn_res) : fn_res[i] = "Question numbering not sequential per chapter.")
        <=> (\E c \in {T_Chapter1, T_Chapter2} : ~NumberedOneToN(fn_arg, c)))

\* the rows of d_questions of the (section, chapter) group of row r
GroupOf(db, r) ==
    {i \in 1..Len(db.d_questions) :
        /\ db.d_questions[i].section_title = db.d_questions[r].section_title
        /\ db.d_questions[i].chapter_title = db.d_questions[r].chapter_title}

\* C31: after rebuild_d_questions_from_blocks, d_questions has exactly one row
\* for every question block of doc_blocks, whatever its chapter title, and no
\* other row; in each (section, chapter) group the numbers are 1..N in
\* ascending block_id; a second rebuild leaves d_questions as it is.
C31_RebuildIsProjection ==
    /\ pc \in {"return", "again"}
       => /\ \A i \in 1..Len(fn_res.doc_blocks) :
                Cardinality({r \in 1..Len(fn_res.d_questions) :
                                fn_res.d_questions[r].block_id = fn_res.doc_blocks[i].block_id})
                  = IF fn_res.doc_blocks[i].block_type = "question" THEN 1 ELSE 0
          /\ \A r \in 1..Len(fn_res.d_questions) :
                fn_res.d_questions[r].question_number
                  = Cardinality({i \in GroupOf(fn_res, r) :
                                    fn_res.d_questions[i].block_id
                                      <= fn_res.d_questions[r].block_id})
    /\ pc = "again" => fn_res.d_questions = fn_arg.d_questions

\* the number of runs at the head of the list with the style of the first one
RECURSIVE SameStylePrefix(_)
SameStylePrefix(runs) ==
    IF Len(runs) <= 1 THEN Len(runs)
    ELSE IF runs[2].bold = runs[1].bold /\ runs[2].italic = runs[1].italic
         THEN 1 + SameStylePrefix(Tail(runs))
         ELSE 1

\* the runs, cut into the longest stretches of one style, each stretch inside
\* one pair of each tag its style asks for (the italic pair inside the bold one)
RECURSIVE StretchMarkup(_)
StretchMarkup(runs) ==
    IF runs = <<>> THEN <<>>
    ELSE Wrapped(RunTexts(SubSeq(runs, 1, SameStylePrefix(runs))), runs[1].bold, runs[1].italic)
         \o StretchMarkup(SubSeq(runs, SameStylePrefix(runs) + 1, Len(runs)))

\* C32: for every run list (texts without tags of their own) the output of
\* _runs_to_markup is that of the runs with text alone, and it is balanced and
\* properly nested: each longest stretch of runs of one style is inside one
\* pair of each tag of the style, <strong> opened before <em> and </em> closed
\* before </strong>, with no tag inside the stretch and none left open at the end.
C32_BalancedNestedMarkup ==
    MarkupReturned
    => fn_res.text = StretchMarkup(SelectSeq(fn_arg, LAMBDA r : r.text # <<>>))

\* C32 happens: a run without text and of another style sits between two bold
\* italic runs, which are serialized inside one pair of tags
C32_Witness ==
    /\ MarkupReturned /\ Len(fn_arg) = 3
    /\ fn_arg[1].text = <<"a">> /\ fn_arg[1].bold /\ fn_arg[1].italic
    /\ fn_arg[2].text = <<>> /\ ~fn_arg[2].bold /\ ~fn_arg[2].italic
    /\ fn_arg[3].text = <<"b", "c">> /\ fn_arg[3].bold /\ fn_arg[3].italic
    /\ fn_res.text = Wrapped(<<"a", "b", "c">>, TRUE, TRUE)

\* the buffers of the live import that are open with content
OpenBuffers ==
    (IF m.aggregated_type # "None" /\ m.aggregated_lines # <<>> THEN {"aggregate"} ELSE {})
    \cup (IF m.note_active /\ m.note_lines # <<>> THEN {"note"} ELSE {})
    \cup (IF m.current_buffer # <<>> THEN {"question/answer"} ELSE {})

\* C33: in the live import, between any two paragraphs and after the last, at
\* most one of the open aggregate, the open note and the question/answer
\* buffer has content.
C33_OneOpenBuffer == variant = "docx" => Cardinality(OpenBuffers) <= 1

\* C33 happens: a paragraph of an answer and a note followed a buffered
\* question; the question and the answer are blocks, the note is the open buffer
C33_Witness ==
    /\ variant = "docx" /\ doc = <<"H1", "Q", "AN">> /\ pc = "read"
    /\ OpenBuffers = {"note"}
    /\ Len(m.doc_blocks) = 3
    /\ m.doc_blocks[2].block_type = "question" /\ m.doc_blocks[3].block_type = "answer"

\* C34: in the live import, at every point of a run, two question/answer
\* blocks next to each other in doc_blocks have different types; a segment of
\* blue runs read while a question is buffered, also after blank segments,
\* emits no block and leaves the buffer open as a question.
C34_NeighboursDiffer ==
    /\ [](\A i \in 1..(Len(m.doc_blocks) - 1) :
            m.doc_blocks[i].block_type \in {"question", "answer"}
            => m.doc_blocks[i + 1].block_type # m.doc_blocks[i].block_type)
    /\ [][(Reads("Q") /\ m.current_mode = "question" /\ m.current_buffer # <<>>)
          => /\ NewBlocks = <<>>
             /\ m'.current_mode = "question"
             /\ Len(m'.current_buffer) = Len(m.current_buffer) + 2]_vars

\* C34 happens: two questions with a blank paragraph between them ended as one block
C34_Witness ==
    /\ doc = <<"H1", "Q", "B", "Q">> /\ pc = "done"
    /\ Len(m.doc_blocks) = 2
    /\ m.doc_blocks[2].block_type = "question"
    /\ m.doc_blocks[2].raw_text = <<"q", "?", "\n", "\n", "q", "?">>

\* C35: in the live import every question or answer block of doc_blocks has a
\* raw_text that is not empty after trimming.
C35_NoEmptyQuestionAnswer ==
    variant = "docx"
    => \A i \in 1..Len(m.doc_blocks) :
          m.doc_blocks[i].block_type \in {"question", "answer"}
          => Strip(m.doc_blocks[i].raw_text) # <<>>

\* the position of the last chapter block at or before block i, 0 without one
ChapterBlockOf(i) ==
    IF \E c \in 1..i : m.doc_blocks[c].block_type = "chapter"
    THEN CHOOSE c \in 1..i : /\ m.doc_blocks[c].block_type = "chapter"
                             /\ \A d \in (c + 1)..i : m.doc_blocks[d].block_type # "chapter"
    ELSE 0

\* C36: in both variants, at every point of a run, a block with a chapter
\* title follows a chapter block and has the section title of the last chapter
\* block before it: the one that was current when the heading was read.
C36_SectionOfChapter ==
    \A i \in 1..Len(m.doc_blocks) :
       m.doc_blocks[i].chapter_title # NoneT
       => /\ ChapterBlockOf(i) # 0
          /\ m.doc_blocks[i].section_title = m.doc_blocks[ChapterBlockOf(i)].section_title

\* the issues _validate reports on the tables of the ended strict run
IssuesAtEnd == IF variant = "final" /\ pc = "done" THEN validate(m) ELSE <<>>

\* C37: when a run of the strict variant has ended, _validate does not report
\* "Question numbering not sequential per chapter." on the rows it wrote, and
\* the run has not failed validation for it.
C37_NumberingAccepted ==
    \A i \in 1..Len(IssuesAtEnd) :
       IssuesAtEnd[i] # "Question numbering not sequential per chapter."

\* C38: in the strict variant every brhc_chapters row has a null section_id or
\* the section_id of a brhc_sections row of the run, every block whose type is
\* not section, intro_heading or intro_paragraph has a chapter title, and the
\* ended run reports neither "Orphan chapters detected." nor "Orphan blocks
\* detected (missing chapter_title).".
C38_NoOrphans ==
    variant = "final" =>
        /\ \A i \in 1..Len(m.brhc_chapters) :
              \/ m.brhc_chapters[i].section_id = NoneInt
              \/ \E j \in 1..Len(m.brhc_sections) :
                     m.brhc_sections[j].section_id = m.brhc_chapters[i].section_id
        /\ \A i \in 1..Len(m.doc_blocks) :
              m.doc_blocks[i].block_type \notin {"section", "intro_heading", "intro_paragraph"}
                  => m.doc_blocks[i].chapter_title # NoneT
        /\ \A i \in 1..Len(IssuesAtEnd) :
              IssuesAtEnd[i] \notin {"Orphan chapters detected.",
                                     "Orphan blocks detected (missing chapter_title)."}

\* a section, a note before any chapter, a chapter of that section and a question:
\* the note is dropped, the chapter refers to the section, the run is committed
C38_Witness ==
    /\ variant = "final" /\ pc = "done" /\ doc = <<"S", "N", "H1", "Q">>
    /\ outcome = "commit"
    /\ Len(m.doc_blocks) = 3
    /\ m.brhc_chapters[1].section_id = m.brhc_sections[1].section_id
    /\ m.doc_blocks[3].chapter_title # NoneT

=============================================================================
